---- MODULE Spec2Model ----
(***************************************************************************)
(* Ninja-Notes: the server sweep over scheduled_actions                    *)
(* (process-notifications), the other writers of that table, the           *)
(* optimistic task store (useOptimisticTasks) and the task list's          *)
(* refetch-on-event cache (TaskList).                                      *)
(***************************************************************************)
EXTENDS Integers, Sequences, FiniteSets, TLC

(***************************************************************************)
(* Bounds of the model.                                                    *)
(***************************************************************************)
\* The wall clock runs over 0..MaxNow.
MaxNow == 1
\* The client's clock (Date.now()) runs over 0..MaxMs.
MaxMs == 2
\* The number of calls of the optimistic store's mutations.
MaxOps == 3
\* The number of writes to the tasks table the task list's part follows.
MaxWrites == 2
\* The number of pipeline invocations (recordings and retries) of the capture screen.
MaxInvokes == 2

(***************************************************************************)
(* Part 1: scheduled_actions, its writers and the sweep.                   *)
(***************************************************************************)
VARIABLES
    now,                \* the wall clock (new Date() / now())
    scheduled_actions,  \* the durable table: row id -> row
    reminderTasks,      \* row id -> number of fallback tasks the sweep inserted for it
    onDevice,           \* row ids a local notification was scheduled for
    sweepPc,            \* run -> position of that invocation of the function
    dueActions,         \* run -> the rows its select returned
    todo,               \* run -> the rows of dueActions the loop has not reached
    cur,                \* run -> the row the loop is handling
    stepFailed,         \* run -> rows for which a step of this run failed
    handled,            \* run -> rows it created a fallback task for or wrote the status of
    inSuccession,       \* the second run selected after the first had returned
    lateTap             \* a notification tap wrote a row that was completed or failed

(***************************************************************************)
(* Part 2: useOptimisticTasks and the durable tasks table behind it.       *)
(***************************************************************************)
VARIABLES
    ms,                 \* Date.now() on the client, and now() in the store
    tasks,              \* the hook's state: what setTasks(prev => ...) sees as prev
    view,               \* the tasks value the callbacks closed over (the last render)
    pendingUpdates,     \* pendingUpdatesRef: the records, each <<updateId, call>>
    ops,                \* call -> the mutation call: its arguments, closure and progress
    tasksTable,         \* the durable tasks table
    storeLog,           \* the calls in the order their writes reached the store
    lastFail            \* the last failed call: the list before and after its catch ran

(***************************************************************************)
(* Part 3: TaskList, its refetch on every change event of the tasks table. *)
(***************************************************************************)
VARIABLES
    dbTasks,            \* the displayed list (useState<Task[]>([]))
    subscribed,         \* the tasks channel is subscribed
    events,             \* change events of the tasks table not yet delivered
    fetches,            \* fetch -> the fetchTasks call: its progress and its response
    writes,             \* the number of writes the handlers have made
    missed              \* a row changed while the channel was not subscribed

(***************************************************************************)
(* Part 4: VoiceCapture, the review popup and the persistence of a result; *)
(* and the task_id column of scheduled_actions.                            *)
(***************************************************************************)
VARIABLES
    isProcessing,        \* useState(false): disables the popup's four buttons
    showTranscriptPopup, \* the review popup is shown
    transcriptionResult, \* the pipeline result under review
    lastAudioBlob,       \* a recording is kept for retries
    requests,            \* the pipeline requests in flight: how many of each origin
    invoked,             \* the number of pipeline invocations so far
    served,              \* what voice-to-text did for the last answered request
    resultNo,            \* how many results setTranscriptionResult has stored
    saving,              \* the save in progress: the result it saves, and how many tasks
    savedOfResult,       \* every insert of a save that succeeded: result and position
    savePc,              \* the position of handleSaveTranscript
    tasksToSave,         \* the candidates its loop has not reached
    persisted,           \* the candidates it inserted: candidate, row id, time
    task_id              \* scheduled_actions.task_id: row id -> the owning task's id

(***************************************************************************)
(* Part 6: the voice-to-text edge function.                                *)
(***************************************************************************)
VARIABLES
    vtPc,                \* the position of one invocation of serve
    deployed,            \* which copy of the function serves the invocation
    supabaseConfigured,  \* SUPABASE_URL and SUPABASE_SERVICE_ROLE_KEY are set
    rawTranscription,    \* whisperResult.text, a sequence of characters
    vtNow,               \* new Date() during the invocation, in ms
    chatgpt,             \* how the chat completion call ended and what it carried
    vtResponse,          \* the response of the invocation
    whisper,             \* how the transcription request of the invocation ended
    inserted             \* the rows the invocation wrote to transcriptions

sweepVars == <<now, scheduled_actions, reminderTasks, onDevice, sweepPc,
               dueActions, todo, cur, stepFailed, handled, inSuccession,
               lateTap>>
optVars == <<ms, tasks, view, pendingUpdates, ops, tasksTable, storeLog, lastFail>>
feedVars == <<dbTasks, subscribed, events, fetches, writes, missed>>
captureVars == <<isProcessing, showTranscriptPopup, transcriptionResult,
                 lastAudioBlob, requests, invoked, served, savePc, tasksToSave,
                 persisted, resultNo, saving, savedOfResult>>

(***************************************************************************)
(* Part 7: the useAudioRecording hook.                                     *)
(***************************************************************************)
VARIABLES
    isRecording,         \* useState(false)
    recordingTime,       \* useState(0): the seconds the interval has counted
    mediaRecorderRef,    \* "null", or the state of the MediaRecorder it holds
    audioChunks,         \* how many chunks audioChunksRef holds
    streamRef,           \* "null", or "live": the microphone stream is held
    timeoutRef,          \* the auto-stop timer: "null", "armed" or "fired"
    timerClosure,        \* the isRecording the timer's stopRecording closed over
    stopEvent,           \* a stop event of the MediaRecorder is queued
    autoStopFired,       \* the timer of the current recording has fired
    pendingStarts,       \* the startRecording calls waiting for getUserMedia
    liveStreams,         \* the microphone streams whose tracks are not stopped
    activeRecorders      \* the MediaRecorders that are recording

recordingVars == <<isRecording, recordingTime, mediaRecorderRef, audioChunks, streamRef,
                   timeoutRef, timerClosure, stopEvent, autoStopFired,
                   pendingStarts, liveStreams, activeRecorders>>

(***************************************************************************)
(* Part 8: the ids NativeNotificationService gives to local notifications. *)
(***************************************************************************)
VARIABLES
    notificationCounter, \* the counter of the service instance
    assignedIds,         \* every id given out so far, in order
    localNotifications   \* what the device holds scheduled: id and action id

notificationVars == <<notificationCounter, assignedIds, localNotifications>>

(***************************************************************************)
(* Part 9: the ProcessingTimer of one voice-to-text invocation.            *)
(***************************************************************************)
VARIABLES
    dateNow,             \* Date.now(), in milliseconds
    startTime,           \* the timer's startTime
    stages,              \* the timer's stages, in the order they were marked
    markedAt,            \* Date.now() at each markStage call, in the same order
    timings              \* what getAllTimings returned, once it was called

timerVars == <<dateNow, startTime, stages, markedAt, timings>>

(***************************************************************************)
(* Part 10: processBase64Chunks of the voice-to-text function.             *)
(***************************************************************************)
VARIABLES
    b64Pc,               \* where the call is: "idle", "loop", "returned" or "threw"
    base64String,        \* its argument, as a sequence of base64 characters
    position,            \* the position of its while loop
    chunks,              \* the byte arrays it has pushed
    result               \* the Uint8Array it returned

base64Vars == <<b64Pc, base64String, position, chunks, result>>

(***************************************************************************)
(* Part 11: the retries of DatabaseService.                                *)
(***************************************************************************)
VARIABLES
    retryCount,          \* the field of the one DatabaseService instance
    dbCalls              \* each call of a method: where it is, and its attempts

retryVars == <<retryCount, dbCalls>>

(***************************************************************************)
(* Part 12: completing a task in TaskList.                                 *)
(***************************************************************************)
VARIABLES
    tasksRows,           \* the ids of the rows of the tasks table
    completed_tasks,     \* how many rows of completed_tasks each original_task_id has
    allTasks,            \* the ids of the tasks the list shows
    completeCalls        \* each handleCompleteTask call: where it is, and its task

completeVars == <<tasksRows, completed_tasks, allTasks, completeCalls>>

voiceVars == <<vtPc, deployed, supabaseConfigured, rawTranscription, vtNow, chatgpt,
               vtResponse, whisper, inserted>>

vars == <<sweepVars, optVars, feedVars, captureVars, task_id, voiceVars,
         recordingVars, notificationVars, timerVars, base64Vars, retryVars, completeVars>>

\* What each part leaves alone.
otherThanSweep == <<optVars, feedVars, captureVars, task_id, voiceVars, recordingVars,
    notificationVars, timerVars, base64Vars, retryVars, completeVars>>
otherThanOpt == <<sweepVars, feedVars, captureVars, task_id, voiceVars, recordingVars,
    notificationVars, timerVars, base64Vars, retryVars, completeVars>>
otherThanFeed == <<sweepVars, tasks, view, pendingUpdates, ops, storeLog, lastFail,
                   captureVars, task_id, voiceVars, recordingVars,
    notificationVars, timerVars, base64Vars, retryVars, completeVars>>
\* A delete of a task also reaches scheduled_actions (ON DELETE CASCADE).
otherThanDelete == <<now, reminderTasks, onDevice, sweepPc, dueActions, todo, cur,
                     stepFailed, handled, inSuccession, lateTap,
                     tasks, view, pendingUpdates, ops, storeLog, lastFail,
                     captureVars, voiceVars, recordingVars,
    notificationVars, timerVars, base64Vars, retryVars, completeVars>>
otherThanCapture == <<scheduled_actions, reminderTasks, onDevice, sweepPc, dueActions,
                      todo, cur, stepFailed, handled, inSuccession, lateTap,
                      ms, tasks, view, pendingUpdates, ops, storeLog, lastFail,
                      feedVars, task_id, voiceVars, recordingVars,
    notificationVars, timerVars, base64Vars, retryVars, completeVars>>
otherThanVoice == <<sweepVars, optVars, feedVars, captureVars, task_id, recordingVars,
                    notificationVars, timerVars, base64Vars, retryVars, completeVars>>
otherThanRecording == <<sweepVars, optVars, feedVars, captureVars, task_id, voiceVars,
                        notificationVars, timerVars, base64Vars, retryVars, completeVars>>
otherThanNotification == <<sweepVars, optVars, feedVars, captureVars, task_id, voiceVars,
                           recordingVars, timerVars, base64Vars, retryVars, completeVars>>

otherThanTimer == <<sweepVars, optVars, feedVars, captureVars, task_id, voiceVars,
                    recordingVars, notificationVars, base64Vars, retryVars, completeVars>>

otherThanBase64 == <<sweepVars, optVars, feedVars, captureVars, task_id, voiceVars,
    recordingVars, notificationVars, timerVars, retryVars, completeVars>>

otherThanRetry == <<sweepVars, optVars, feedVars, captureVars, task_id, voiceVars,
    recordingVars, notificationVars, timerVars, base64Vars, completeVars>>

otherThanComplete == <<sweepVars, optVars, feedVars, captureVars, task_id, voiceVars,
    recordingVars, notificationVars, timerVars, base64Vars, retryVars>>

ActionIds == {"a1", "a2"}
Runs == {"r1", "r2"}
ActionTypes == {"reminder", "call"}
ScheduleTimes == {1}
\* status TEXT CHECK (status IN ('pending', 'completed', 'failed'))
Statuses == {"pending", "completed", "failed"}
\* Every caller inserts a row as pending (the column's default).
InsertStatuses == {"pending"}
\* What a store call gives back: data, { error }, or a rejected promise.
Outcomes == {"ok", "error", "throw"}
NoAction == "none"

\* A row id that was never inserted, and one whose row was deleted.
AbsentRow == [status |-> "absent", action_type |-> "reminder",
              scheduled_for |-> 1, web_push |-> FALSE]
DeletedRow == [AbsentRow EXCEPT !.status = "deleted"]

RowExists(a) == scheduled_actions[a].status \in Statuses

\* The select without its filter on the delivery settings.
SelectedIdsAnyDelivery == {a \in ActionIds :
                     /\ scheduled_actions[a].status = "pending"
                     /\ scheduled_actions[a].scheduled_for <= now}

\* .eq('status', 'pending').lte('scheduled_for', now).eq('notification_settings->web_push', true)
SelectedIds == {a \in ActionIds :
                     /\ scheduled_actions[a].status = "pending"
                     /\ scheduled_actions[a].scheduled_for <= now
                     /\ scheduled_actions[a].web_push}

\* The select's result: each row with the columns the loop reads.
SweepSelection == {[id |-> a, action_type |-> scheduled_actions[a].action_type] :
                     a \in SelectedIds}
Ids(rows) == {row.id : row \in rows}

\* Rows that are due and pending, whatever their delivery settings.
DuePending == {a \in ActionIds :
                 /\ scheduled_actions[a].status = "pending"
                 /\ scheduled_actions[a].scheduled_for <= now}

\* An UPDATE ... WHERE id = a: it changes the row if there is one.
WriteStatus(a, s) ==
    IF RowExists(a)
    THEN [scheduled_actions EXCEPT ![a].status = s]
    ELSE scheduled_actions

\* The runs are numbered in the order they select.
FirstRun == "r1"

SweepInit ==
    /\ now = 0
    /\ scheduled_actions = [a \in ActionIds |-> AbsentRow]
    /\ reminderTasks = [a \in ActionIds |-> 0]
    /\ onDevice = {}
    /\ sweepPc = [r \in Runs |-> "idle"]
    /\ dueActions = [r \in Runs |-> {}]
    /\ todo = [r \in Runs |-> {}]
    /\ cur = [r \in Runs |-> NoAction]
    /\ stepFailed = [r \in Runs |-> {}]
    /\ handled = [r \in Runs |-> {}]
    /\ inSuccession = FALSE
    /\ lateTap = FALSE

\* createScheduledAction: a new row, with the status its caller passes.
InsertAction(a, t, sf, wp, s) ==
    /\ scheduled_actions[a].status = "absent"
    /\ scheduled_actions' = [scheduled_actions EXCEPT ![a] =
            [status |-> s, action_type |-> t, scheduled_for |-> sf, web_push |-> wp]]
    /\ UNCHANGED <<now, reminderTasks, onDevice, sweepPc, dueActions, todo, cur,
                   stepFailed, handled, inSuccession, lateTap>>
    /\ UNCHANGED otherThanSweep

\* handleDeleteAction: DELETE ... WHERE id = a.
DeleteAction(a) ==
    /\ RowExists(a)
    /\ scheduled_actions' = [scheduled_actions EXCEPT ![a] = DeletedRow]
    /\ UNCHANGED <<now, reminderTasks, onDevice, sweepPc, dueActions, todo, cur,
                   stepFailed, handled, inSuccession, lateTap>>
    /\ UNCHANGED otherThanSweep

\* scheduleActionsFromDatabase: a local notification for a pending future row.
ScheduleOnDevice(a) ==
    /\ scheduled_actions[a].status = "pending"
    /\ scheduled_actions[a].scheduled_for >= now
    /\ a \notin onDevice
    /\ onDevice' = onDevice \cup {a}
    /\ UNCHANGED <<now, scheduled_actions, reminderTasks, sweepPc, dueActions, todo,
                   cur, stepFailed, handled, inSuccession, lateTap>>
    /\ UNCHANGED otherThanSweep

\* The status markActionCompleted writes.
TapStatusReopens == "pending"
TapStatus == "completed"

\* localNotificationActionPerformed -> markActionCompleted(actionId).
NotificationTap(a, o) ==
    /\ a \in onDevice
    /\ scheduled_actions' = IF o = "ok" THEN WriteStatus(a, TapStatus)
                            ELSE scheduled_actions
    /\ lateTap' = (lateTap \/
            (o = "ok" /\ scheduled_actions[a].status \in {"completed", "failed"}))
    /\ UNCHANGED <<now, reminderTasks, onDevice, sweepPc, dueActions, todo, cur,
                   stepFailed, handled, inSuccession>>
    /\ UNCHANGED otherThanSweep

\* process_due_actions(), run by cron every minute.
ProcessDueActions ==
    /\ DuePending # {}
    /\ scheduled_actions' = [a \in ActionIds |->
            IF a \in DuePending
            THEN [scheduled_actions[a] EXCEPT !.status = "completed"]
            ELSE scheduled_actions[a]]
    /\ UNCHANGED <<now, reminderTasks, onDevice, sweepPc, dueActions, todo, cur,
                   stepFailed, handled, inSuccession, lateTap>>
    /\ UNCHANGED otherThanSweep

Tick ==
    /\ now < MaxNow
    /\ now' = now + 1
    /\ UNCHANGED <<scheduled_actions, reminderTasks, onDevice, sweepPc, dueActions,
                   todo, cur, stepFailed, handled, inSuccession, lateTap>>
    /\ UNCHANGED otherThanSweep

\* The select that opens a run of process-notifications.
SweepSelect(r, o) ==
    /\ sweepPc[r] = "idle"
    /\ r # FirstRun => sweepPc[FirstRun] # "idle"
    /\ IF o = "ok"
       THEN /\ sweepPc' = [sweepPc EXCEPT ![r] = "loop"]
            /\ dueActions' = [dueActions EXCEPT ![r] = SweepSelection]
            /\ todo' = [todo EXCEPT ![r] = SweepSelection]
            /\ inSuccession' = (inSuccession \/
                    (r # FirstRun /\ sweepPc[FirstRun] = "done"))
       ELSE /\ sweepPc' = [sweepPc EXCEPT ![r] = "aborted"]
            /\ UNCHANGED <<dueActions, todo, inSuccession>>
    /\ UNCHANGED <<now, scheduled_actions, reminderTasks, onDevice, cur, stepFailed,
                   handled,
                   lateTap>>
    /\ UNCHANGED otherThanSweep

\* The loop with the test of the action type left out: every row goes to
\* the fallback insert.
SweepNextRowAlwaysInserts(r) ==
    /\ sweepPc[r] = "loop"
    /\ IF todo[r] = {}
       THEN /\ sweepPc' = [sweepPc EXCEPT ![r] = "done"]
            /\ cur' = [cur EXCEPT ![r] = NoAction]
            /\ UNCHANGED todo
       ELSE \E action \in todo[r] :
            /\ cur' = [cur EXCEPT ![r] = action.id]
            /\ todo' = [todo EXCEPT ![r] = todo[r] \ {action}]
            /\ sweepPc' = [sweepPc EXCEPT ![r] = "insert"]
    /\ UNCHANGED <<now, scheduled_actions, reminderTasks, onDevice, dueActions,
                   stepFailed, handled, inSuccession, lateTap>>
    /\ UNCHANGED otherThanSweep

\* for (const action of dueActions || []): the next row, or the success response.
SweepNextRow(r) ==
    /\ sweepPc[r] = "loop"
    /\ IF todo[r] = {}
       THEN /\ sweepPc' = [sweepPc EXCEPT ![r] = "done"]
            /\ cur' = [cur EXCEPT ![r] = NoAction]
            /\ UNCHANGED todo
       ELSE \E action \in todo[r] :
            /\ cur' = [cur EXCEPT ![r] = action.id]
            /\ todo' = [todo EXCEPT ![r] = todo[r] \ {action}]
            /\ sweepPc' = [sweepPc EXCEPT ![r] =
                    IF action.action_type = "reminder"
                    THEN "insert" ELSE "update"]
    /\ UNCHANGED <<now, scheduled_actions, reminderTasks, onDevice, dueActions,
                   stepFailed, handled, inSuccession, lateTap>>
    /\ UNCHANGED otherThanSweep

\* if (action.action_type === 'reminder'): the fallback task insert.
SweepInsertTask(r, o) ==
    /\ sweepPc[r] = "insert"
    /\ reminderTasks' = IF o = "ok"
                        THEN [reminderTasks EXCEPT ![cur[r]] = @ + 1]
                        ELSE reminderTasks
    /\ stepFailed' = IF o = "ok" THEN stepFailed
                     ELSE [stepFailed EXCEPT ![r] = @ \cup {cur[r]}]
    /\ handled' = IF o = "ok" THEN [handled EXCEPT ![r] = @ \cup {cur[r]}]
                  ELSE handled
    /\ sweepPc' = [sweepPc EXCEPT ![r] = IF o = "throw" THEN "catch" ELSE "update"]
    /\ UNCHANGED <<now, scheduled_actions, onDevice, dueActions, todo, cur,
                   inSuccession, lateTap>>
    /\ UNCHANGED otherThanSweep

\* notificationSent is set to true before the status is written.
notificationSent == TRUE
SweepStatus == IF notificationSent THEN "completed" ELSE "failed"

\* The status update that ends the handling of a row.
SweepUpdateStatus(r, o) ==
    /\ sweepPc[r] = "update"
    /\ scheduled_actions' = IF o = "ok" THEN WriteStatus(cur[r], SweepStatus)
                            ELSE scheduled_actions
    /\ stepFailed' = IF o = "ok" THEN stepFailed
                     ELSE [stepFailed EXCEPT ![r] = @ \cup {cur[r]}]
    /\ handled' = IF o = "ok" THEN [handled EXCEPT ![r] = @ \cup {cur[r]}]
                  ELSE handled
    /\ sweepPc' = [sweepPc EXCEPT ![r] = IF o = "throw" THEN "catch" ELSE "loop"]
    /\ UNCHANGED <<now, reminderTasks, onDevice, dueActions, todo, cur, inSuccession,
                   lateTap>>
    /\ UNCHANGED otherThanSweep

\* The status the catch block writes.
CatchStatusRequeues == "pending"
CatchStatus == "failed"

\* catch (actionError): mark the row failed; the result is not looked at.
SweepCatch(r, o) ==
    /\ sweepPc[r] = "catch"
    /\ scheduled_actions' = IF o = "ok" THEN WriteStatus(cur[r], CatchStatus)
                            ELSE scheduled_actions
    /\ sweepPc' = [sweepPc EXCEPT ![r] = IF o = "throw" THEN "aborted" ELSE "loop"]
    /\ todo' = IF o = "throw" THEN [todo EXCEPT ![r] = {}] ELSE todo
    /\ cur' = IF o = "throw" THEN [cur EXCEPT ![r] = NoAction] ELSE cur
    /\ handled' = IF o = "ok" THEN [handled EXCEPT ![r] = @ \cup {cur[r]}]
                  ELSE handled
    /\ UNCHANGED <<now, reminderTasks, onDevice, dueActions, stepFailed,
                   inSuccession, lateTap>>
    /\ UNCHANGED otherThanSweep

\* The function's process dies between two awaits.
SweepCrash(r) ==
    /\ sweepPc[r] \in {"loop", "insert", "update", "catch"}
    /\ sweepPc' = [sweepPc EXCEPT ![r] = "crashed"]
    /\ todo' = [todo EXCEPT ![r] = {}]
    /\ cur' = [cur EXCEPT ![r] = NoAction]
    /\ UNCHANGED <<now, scheduled_actions, reminderTasks, onDevice, dueActions,
                   stepFailed, handled, inSuccession, lateTap>>
    /\ UNCHANGED otherThanSweep

\* The sweep function, invoked twice (the runs may overlap), over rows that
\* are inserted beforehand; no other writer touches scheduled_actions.
SweepNext ==
    \/ \E a \in ActionIds, t \in ActionTypes, sf \in ScheduleTimes,
          wp \in BOOLEAN, s \in InsertStatuses : InsertAction(a, t, sf, wp, s)
    \/ Tick
    \/ \E r \in Runs, o \in Outcomes : SweepSelect(r, o)
    \/ \E r \in Runs : SweepNextRow(r)
    \/ \E r \in Runs, o \in Outcomes : SweepInsertTask(r, o)
    \/ \E r \in Runs, o \in Outcomes : SweepUpdateStatus(r, o)
    \/ \E r \in Runs, o \in Outcomes : SweepCatch(r, o)
    \/ \E r \in Runs : SweepCrash(r)


\* Every writer of scheduled_actions: the client, the device, the cron job
\* and one run of the sweep.
WritersNext ==
    \/ \E a \in ActionIds, t \in ActionTypes, sf \in ScheduleTimes,
          wp \in BOOLEAN, s \in InsertStatuses : InsertAction(a, t, sf, wp, s)
    \/ \E a \in ActionIds : DeleteAction(a)
    \/ \E a \in ActionIds : ScheduleOnDevice(a)
    \/ \E a \in ActionIds, o \in Outcomes : NotificationTap(a, o)
    \/ ProcessDueActions
    \/ Tick
    \/ \E o \in Outcomes : SweepSelect(FirstRun, o)
    \/ SweepNextRow(FirstRun)
    \/ \E o \in Outcomes : SweepInsertTask(FirstRun, o)
    \/ \E o \in Outcomes : SweepUpdateStatus(FirstRun, o)
    \/ \E o \in Outcomes : SweepCatch(FirstRun, o)
    \/ SweepCrash(FirstRun)


(***************************************************************************)
(* Claims about the sweep and the status of a scheduled action.            *)
(***************************************************************************)
SecondRun == "r2"

\* C1: when the sweep runs twice in immediate succession with no other
\* writer in between, a row that was due and pending before the first run
\* and that the first run handled (it created the fallback task or wrote
\* the status) is not in the second run's selection, so it is handled in
\* at most one of the two runs.
C1_SecondRunSkipsHandledRows ==
    inSuccession =>
        /\ handled[FirstRun] \cap Ids(dueActions[SecondRun]) = {}
        /\ handled[FirstRun] \cap handled[SecondRun] = {}

\* C2: across all sweep runs, overlapping or crashed ones included, at most
\* one fallback task is ever created for one scheduled action.
C2_AtMostOneFallbackTask ==
    \A a \in ActionIds : reminderTasks[a] <= 1

\* C3: a scheduled action whose status has left pending (completed, failed,
\* or the row deleted) is never pending again, whichever writer acts.
C3_StatusNeverReentersPending ==
    [][\A a \in ActionIds :
          scheduled_actions[a].status \in {"completed", "failed", "deleted"}
              => scheduled_actions'[a].status # "pending"]_vars

\* A row that had left pending was written again (by a notification tap)
\* and is still not pending.
C3_Witness ==
    /\ lateTap
    /\ \E a \in onDevice : scheduled_actions[a].status \in {"completed", "failed"}

\* C4: when a run of the sweep, alone, has returned, every row for which one
\* of its steps failed (the task insert or the status update returned an
\* error or threw) has status failed.
C4_FailedStepMarksRowFailed ==
    (sweepPc[FirstRun] = "done" /\ sweepPc[SecondRun] = "idle") =>
        \A a \in stepFailed[FirstRun] : scheduled_actions[a].status = "failed"

(***************************************************************************)
(* Part 2: the optimistic task store.                                      *)
(***************************************************************************)
Calls == 1..MaxOps
\* A task id: <<"row", n>> is a row's uuid, <<"temp", t>> is `temp-${Date.now()}`.
InitialTask == [id |-> <<"row", 0>>, createdAt |-> 0, title |-> "A", completed |-> FALSE]
NoTask == [id |-> <<"none", 0>>, createdAt |-> 0, title |-> "A", completed |-> FALSE]
\* newTask, the argument of addOptimisticTask.
NewTask == [title |-> "A", completed |-> FALSE]
\* updates: Partial<Task>, the fields it sets and their values.
NoUpdates == [fields |-> {}, title |-> "A", completed |-> FALSE]
UpdateInputs == {[fields |-> {"title"}, title |-> "B", completed |-> FALSE],
                 [fields |-> {"completed"}, title |-> "A", completed |-> TRUE]}
StoreOutcomes == {"ok", "error"}

NoCall == [kind |-> "none", phase |-> "none", target |-> NoTask.id,
           updates |-> NoUpdates, originalTask |-> NoTask, data |-> NoTask,
           callBefore |-> <<>>, clean |-> TRUE, during |-> {}]

InFlight(o) == ops[o].phase \in {"sent", "ok", "error"}

\* tasks.find(t => t.id === id)
Has(list, id) == \E i \in 1..Len(list) : list[i].id = id
Find(list, id) ==
    IF Has(list, id)
    THEN list[CHOOSE i \in 1..Len(list) :
                  list[i].id = id /\ \A j \in 1..(i - 1) : list[j].id # id]
    ELSE NoTask

\* { ...t, ...updates }
Merge(t, u) ==
    [t EXCEPT !.title = IF "title" \in u.fields THEN u.title ELSE @,
              !.completed = IF "completed" \in u.fields THEN u.completed ELSE @]

\* prev.filter(t => t.id !== id)
Without(list, id) == SelectSeq(list, LAMBDA t : t.id # id)
\* prev.map(t => t.id === id ? by : t)
Replaced(list, id, by) == [i \in 1..Len(list) |-> IF list[i].id = id THEN by ELSE list[i]]
\* prev.map(t => t.id === id ? { ...t, ...updates } : t)
Updated(list, id, u) ==
    [i \in 1..Len(list) |-> IF list[i].id = id THEN Merge(list[i], u) ELSE list[i]]

\* Array.prototype.sort with (a, b) => b.createdAt - a.createdAt: a stable
\* sort, newest first.
InsertNewestFirst(sorted, t) ==
    LET k == Cardinality({i \in 1..Len(sorted) : sorted[i].createdAt >= t.createdAt})
        \* sorted is newest first, so these are its first k elements
    IN SubSeq(sorted, 1, k) \o <<t>> \o SubSeq(sorted, k + 1, Len(sorted))
RECURSIVE SortNewestFirst(_)
SortNewestFirst(list) ==
    IF list = <<>> THEN <<>>
    ELSE InsertNewestFirst(SortNewestFirst(SubSeq(list, 1, Len(list) - 1)),
                           list[Len(list)])

\* updateId: `create-${optimisticId}`, `update-${taskId}`, `delete-${taskId}`.
UpdateId(o) == <<ops[o].kind, ops[o].target>>
NewUpdateId(kind, id) == <<kind, id>>
\* pendingUpdatesRef.current.set(updateId, {..., rollback})
PendingSet(key, o) == {r \in pendingUpdates : r[1] # key} \cup {<<key, o>>}
\* pendingUpdatesRef.current.delete(updateId)
PendingDelete(key) == {r \in pendingUpdates : r[1] # key}
\* pendingUpdatesRef.current.get(updateId): the call whose closure is recorded, or 0.
PendingGet(key) ==
    IF \E r \in pendingUpdates : r[1] = key
    THEN (CHOOSE r \in pendingUpdates : r[1] = key)[2]
    ELSE 0

\* The rollback closure of call c, applied to prev.
Rollback(c, prev) ==
    CASE ops[c].kind = "create" -> Without(prev, ops[c].target)
      [] ops[c].kind = "update" -> Replaced(prev, ops[c].target, ops[c].originalTask)
      [] ops[c].kind = "delete" -> SortNewestFirst(Append(prev, ops[c].originalTask))
      [] OTHER -> prev

\* The calls are numbered in the order they are made.
NextCall == CHOOSE o \in Calls : ops[o].kind = "none" /\ \A q \in 1..(o - 1) : ops[q].kind # "none"
CanCall == \E o \in Calls : ops[o].kind = "none"

\* The calls in flight on the same task when a call is made.
InFlightOn(id) == {q \in Calls : InFlight(q) /\ ops[q].target = id}
\* Another mutation was applied to the list while call q was in flight.
Touched(except) ==
    [q \in Calls |-> IF q # except /\ InFlight(q)
                     THEN [ops[q] EXCEPT !.clean = FALSE] ELSE ops[q]]

NoFail == [call |-> 0, ran |-> FALSE, prev |-> <<>>, after |-> <<>>,
           remains |-> FALSE, others |-> {}]

OptInit ==
    /\ ms = 0
    /\ tasks = <<InitialTask>>
    /\ view = <<InitialTask>>
    /\ pendingUpdates = {}
    /\ ops = [o \in Calls |-> NoCall]
    /\ tasksTable = {InitialTask}
    /\ storeLog = <<>>
    /\ lastFail = NoFail

\* addOptimisticTask(newTask), up to its await.
AddOptimisticTask ==
    /\ CanCall
    /\ LET o == NextCall
           optimisticId == <<"temp", ms>>
           optimisticTask == [id |-> optimisticId, createdAt |-> ms,
                              title |-> NewTask.title, completed |-> NewTask.completed]
       IN /\ tasks' = <<optimisticTask>> \o tasks
          /\ pendingUpdates' = PendingSet(NewUpdateId("create", optimisticId), o)
          /\ ops' = [Touched(o) EXCEPT ![o] =
                [NoCall EXCEPT !.kind = "create", !.phase = "sent",
                               !.target = optimisticId,
                               !.originalTask = optimisticTask,
                               !.callBefore = tasks,
                               !.during = InFlightOn(optimisticId)]]
    /\ UNCHANGED <<ms, view, tasksTable, storeLog, lastFail>>
    /\ UNCHANGED otherThanOpt

\* updateOptimisticTask(taskId, updates), up to its await.
UpdateOptimisticTask(taskId, updates) ==
    /\ CanCall
    /\ Has(view, taskId)
    /\ LET o == NextCall
           originalTask == Find(view, taskId)
       IN /\ tasks' = Updated(tasks, taskId, updates)
          /\ pendingUpdates' = PendingSet(NewUpdateId("update", taskId), o)
          /\ ops' = [Touched(o) EXCEPT ![o] =
                [NoCall EXCEPT !.kind = "update", !.phase = "sent",
                               !.target = taskId, !.updates = updates,
                               !.originalTask = originalTask,
                               !.callBefore = tasks,
                               !.during = InFlightOn(taskId)]]
    /\ UNCHANGED <<ms, view, tasksTable, storeLog, lastFail>>
    /\ UNCHANGED otherThanOpt

\* deleteOptimisticTask(taskId), up to its await.
DeleteOptimisticTask(taskId) ==
    /\ CanCall
    /\ Has(view, taskId)
    /\ LET o == NextCall
           originalTask == Find(view, taskId)
       IN /\ tasks' = Without(tasks, taskId)
          /\ pendingUpdates' = PendingSet(NewUpdateId("delete", taskId), o)
          /\ ops' = [Touched(o) EXCEPT ![o] =
                [NoCall EXCEPT !.kind = "delete", !.phase = "sent",
                               !.target = taskId,
                               !.originalTask = originalTask,
                               !.callBefore = tasks,
                               !.during = InFlightOn(taskId)]]
    /\ UNCHANGED <<ms, view, tasksTable, storeLog, lastFail>>
    /\ UNCHANGED otherThanOpt

\* The event handler returns and React renders: the callbacks are re-created
\* over the current tasks (useCallback's [tasks] dependency).
Render ==
    /\ view # tasks
    /\ view' = tasks
    /\ UNCHANGED <<ms, tasks, pendingUpdates, ops, tasksTable, storeLog, lastFail>>
    /\ UNCHANGED otherThanOpt

TickMs ==
    /\ ms < MaxMs
    /\ ms' = ms + 1
    /\ UNCHANGED <<tasks, view, pendingUpdates, ops, tasksTable, storeLog, lastFail>>
    /\ UNCHANGED otherThanOpt

\* The id column is a uuid: a filter on a temp id is rejected by the store.
IsUuid(id) == id[1] = "row"
\* gen_random_uuid() for the next inserted row.
NewRowId == <<"row", Cardinality({o \in Calls : ops[o].kind = "create" /\ ops[o].data # NoTask}) + 1>>

\* The durable table after the write of call o is applied.
Applied(o) ==
    CASE ops[o].kind = "create" ->
             tasksTable \cup {[id |-> NewRowId, createdAt |-> ms,
                               title |-> ops[o].originalTask.title,
                               completed |-> ops[o].originalTask.completed]}
      [] ops[o].kind = "update" ->
             {IF r.id = ops[o].target THEN Merge(r, ops[o].updates) ELSE r : r \in tasksTable}
      [] ops[o].kind = "delete" ->
             {r \in tasksTable : r.id # ops[o].target}
      [] OTHER -> tasksTable

\* The request of call o reaches the store, which applies it and answers
\* { data, error: null }, or answers { error }.
StoreApply(o, outcome) ==
    /\ ops[o].phase = "sent"
    /\ outcome = "ok" => (ops[o].kind = "create" \/ IsUuid(ops[o].target))
    /\ IF outcome = "ok"
       THEN /\ tasksTable' = Applied(o)
            /\ storeLog' = Append(storeLog, o)
            /\ ops' = [ops EXCEPT ![o].phase = "ok",
                                  ![o].data = IF ops[o].kind = "create"
                                              THEN [ops[o].originalTask EXCEPT
                                                        !.id = NewRowId, !.createdAt = ms]
                                              ELSE NoTask]
       ELSE /\ ops' = [ops EXCEPT ![o].phase = "error"]
            /\ UNCHANGED <<tasksTable, storeLog>>
    /\ UNCHANGED <<ms, tasks, view, pendingUpdates, lastFail>>
    /\ UNCHANGED otherThanOpt

\* The calls other than o that are in flight or confirmed.
Others(o) == {q \in Calls \ {o} : ops[q].phase \in {"sent", "ok", "settled_ok"}}

\* The rest of the call after its await: the success path, or the catch with
\* rollbackUpdate(updateId).  React renders before the next event.
Settle(o) ==
    /\ ops[o].phase \in {"ok", "error"}
    /\ LET key == UpdateId(o)
           c == PendingGet(key)
           confirmed == [ops[o].originalTask EXCEPT !.id = ops[o].data.id,
                                                    !.createdAt = ops[o].data.createdAt]
           after == IF ops[o].phase = "ok"
                    THEN IF ops[o].kind = "create"
                         THEN Replaced(tasks, ops[o].target, confirmed)
                         ELSE tasks
                    ELSE IF c # 0 THEN Rollback(c, tasks) ELSE tasks
           pendingAfter == IF ops[o].phase = "ok" \/ c # 0
                           THEN PendingDelete(key) ELSE pendingUpdates
       IN /\ tasks' = after
          /\ view' = after
          /\ pendingUpdates' = pendingAfter
          /\ ops' = [(IF after # tasks THEN Touched(o) ELSE ops) EXCEPT
                        ![o].phase = IF ops[o].phase = "ok"
                                     THEN "settled_ok" ELSE "settled_err"]
          /\ lastFail' = IF ops[o].phase = "error"
                         THEN [call |-> o, ran |-> c # 0, prev |-> tasks,
                               after |-> after,
                               remains |-> \E r \in pendingAfter : r[1] = key,
                               others |-> Others(o)]
                         ELSE lastFail
    /\ UNCHANGED <<ms, tasksTable, storeLog>>
    /\ UNCHANGED otherThanOpt

\* The ids a caller can name: the tasks it was shown.
ShownIds == {view[i].id : i \in 1..Len(view)}

OptNext ==
    \/ AddOptimisticTask
    \/ \E id \in ShownIds : \E u \in UpdateInputs : UpdateOptimisticTask(id, u)
    \/ \E id \in ShownIds : DeleteOptimisticTask(id)
    \/ Render
    \/ TickMs
    \/ \E o \in Calls : \E outcome \in StoreOutcomes : StoreApply(o, outcome)
    \/ \E o \in Calls : Settle(o)


(***************************************************************************)
(* Properties of the optimistic store.                                     *)
(***************************************************************************)
IdsOf(list) == [i \in 1..Len(list) |-> list[i].id]
\* The task holds the value of every field the updates set.
HoldsValues(t, u) == Merge(t, u) = t
Row(id) == CHOOSE r \in tasksTable : r.id = id
Position(list, id) == CHOOSE i \in 1..Len(list) : list[i].id = id
Logged(o) == \E i \in 1..Len(storeLog) : storeLog[i] = o
LogIndex(o) == CHOOSE i \in 1..Len(storeLog) : storeLog[i] = o

\* C5: when the insert of addOptimisticTask fails and no other mutation was
\* applied to the list in between, the list after the catch equals the list
\* immediately before the call, same elements in the same order, and no
\* pending-update record of that create remains.
C5_CreateThenFailRestoresList ==
    LET o == lastFail.call
    IN (o # 0 /\ ops[o].kind = "create" /\ ops[o].clean) =>
           /\ lastFail.after = ops[o].callBefore
           /\ ~lastFail.remains

\* C6: when the write of updateOptimisticTask fails (and no other mutation
\* was applied to the list in between), the task holds the field values it
\* held in the list immediately before the call, and every task keeps its
\* position.
C6_UpdateThenFailRestoresValues ==
    LET o == lastFail.call
    IN (o # 0 /\ ops[o].kind = "update" /\ ops[o].clean) =>
           /\ Find(lastFail.after, ops[o].target) = Find(ops[o].callBefore, ops[o].target)
           /\ IdsOf(lastFail.after) = IdsOf(ops[o].callBefore)

\* C7: when the delete of deleteOptimisticTask fails and its rollback runs,
\* the removed task is back at its newest-created-first position and the
\* other tasks are in the same relative order as before the rollback.
C7_DeleteThenFailKeepsOrder ==
    LET o == lastFail.call
        id == ops[o].target
        after == lastFail.after
    IN (o # 0 /\ ops[o].kind = "delete" /\ lastFail.ran) =>
           /\ Has(after, id)
           /\ \A j \in 1..Len(after) :
                 /\ j < Position(after, id) =>
                        after[j].createdAt >= after[Position(after, id)].createdAt
                 /\ j > Position(after, id) =>
                        after[j].createdAt <= after[Position(after, id)].createdAt
           /\ Without(after, id) = Without(lastFail.prev, id)

\* The in-memory effect of call q is present in the list.
Effect(q, list) ==
    CASE ops[q].kind = "create" -> Has(list, ops[q].target) \/ Has(list, ops[q].data.id)
      [] ops[q].kind = "update" ->
             Has(list, ops[q].target) /\ HoldsValues(Find(list, ops[q].target), ops[q].updates)
      [] ops[q].kind = "delete" -> ~Has(list, ops[q].target)
      [] OTHER -> TRUE

\* C8: the rollback of a failed mutation undoes only that mutation: the
\* effect of every other mutation in flight or confirmed that was present
\* before the rollback is present after it.
C8_RollbackUndoesOnlyItsMutation ==
    lastFail.call # 0 =>
        \A q \in lastFail.others :
            Effect(q, lastFail.prev) => Effect(q, lastFail.after)

Settled(o) == ops[o].phase \in {"settled_ok", "settled_err"}
\* u2 was called on the task of u1 while u1 was in flight, and no third call
\* named that task.
Overlapping(u1, u2) ==
    /\ u1 < u2
    /\ ops[u1].kind = "update" /\ ops[u2].kind = "update"
    /\ u1 \in ops[u2].during
    /\ \A q \in Calls \ {u1, u2} : ops[q].kind # "none" => ops[q].target # ops[u2].target

\* C9: for two updates u1 then u2 of one task, u2 called while u1 was in
\* flight, the writes reach the store in the order of the calls, and once
\* both have settled (u2 confirmed) the durable row and the in-memory task
\* hold the values u2 set.
C9_OverlappingUpdatesInIssueOrder ==
    \A u1, u2 \in Calls :
        Overlapping(u1, u2) =>
            /\ (Logged(u1) /\ Logged(u2)) => LogIndex(u1) < LogIndex(u2)
            /\ (Settled(u1) /\ ops[u2].phase = "settled_ok") =>
                   /\ HoldsValues(Row(ops[u2].target), ops[u2].updates)
                   /\ HoldsValues(Find(tasks, ops[u2].target), ops[u2].updates)

(***************************************************************************)
(* Part 3: the task list (TaskList) over the durable tasks table.          *)
(***************************************************************************)
\* One fetch at mount and one for every event.
MaxFetches == MaxWrites + 1
Fetches == 1..MaxFetches
NoFetch == [phase |-> "none", data |-> <<>>]

\* .order('created_at', { ascending: false }): the rows newest first (rows
\* of one created_at in one fixed order).
RECURSIVE OrderNewestFirst(_)
OrderNewestFirst(rows) ==
    IF rows = {} THEN <<>>
    ELSE LET first == CHOOSE r \in rows : \A q \in rows : r.createdAt >= q.createdAt
         IN <<first>> \o OrderNewestFirst(rows \ {first})

\* data.map(task => ({id, title, ..., completed, createdAt: task.created_at}))
FormatTask(row) ==
    [id |-> row.id, createdAt |-> row.createdAt, title |-> row.title,
     completed |-> row.completed]
FormattedTasks(data) == [i \in 1..Len(data) |-> FormatTask(data[i])]

\* The mounted component: useState([]) and the first fetchTasks() sent.
FeedInit ==
    /\ dbTasks = <<>>
    /\ subscribed = FALSE
    /\ events = 0
    /\ fetches = [f \in Fetches |-> IF f = 1 THEN [NoFetch EXCEPT !.phase = "sent"] ELSE NoFetch]
    /\ writes = 0
    /\ missed = FALSE

\* A write that changed `changed` rows: postgres_changes emits one event per
\* row to the subscribed channel.
Emit(changed) ==
    /\ events' = IF subscribed THEN events + changed ELSE events
    /\ missed' = (missed \/ (~subscribed /\ changed > 0))

RowsWithId(id) == {r \in tasksTable : r.id = id}

\* handleToggleTask(taskId): update({ completed: !task.completed }).
HandleToggleTask(taskId, outcome) ==
    /\ writes < MaxWrites
    /\ Has(dbTasks, taskId)
    /\ writes' = writes + 1
    /\ IF outcome = "ok"
       THEN /\ tasksTable' = {IF r.id = taskId
                              THEN [r EXCEPT !.completed = ~Find(dbTasks, taskId).completed]
                              ELSE r : r \in tasksTable}
            /\ Emit(Cardinality(RowsWithId(taskId)))
       ELSE UNCHANGED <<tasksTable, events, missed>>
    /\ UNCHANGED <<ms, dbTasks, subscribed, fetches>>
    /\ UNCHANGED otherThanFeed

\* task_id UUID REFERENCES public.tasks(id) ON DELETE CASCADE: the rows of
\* scheduled_actions that go with the task.
OwnedBy(taskId) == {a \in ActionIds : RowExists(a) /\ task_id[a] = taskId}
CascadeActions(taskId) ==
    [a \in ActionIds |-> IF a \in OwnedBy(taskId) THEN DeletedRow ELSE scheduled_actions[a]]
CascadeTaskIds(taskId) ==
    [a \in ActionIds |-> IF a \in OwnedBy(taskId) THEN NoTask.id ELSE task_id[a]]

\* handleDeleteTask(taskId): delete().eq('id', taskId).
HandleDeleteTask(taskId, outcome) ==
    /\ writes < MaxWrites
    /\ Has(dbTasks, taskId)
    /\ writes' = writes + 1
    /\ IF outcome = "ok"
       THEN /\ tasksTable' = tasksTable \ RowsWithId(taskId)
            /\ scheduled_actions' = CascadeActions(taskId)
            /\ task_id' = CascadeTaskIds(taskId)
            /\ Emit(Cardinality(RowsWithId(taskId)))
       ELSE UNCHANGED <<tasksTable, scheduled_actions, task_id, events, missed>>
    /\ UNCHANGED <<ms, dbTasks, subscribed, fetches>>
    /\ UNCHANGED otherThanDelete

\* handleSaveTranscript, one task of its loop: insert([{title, ..., completed: false}]).
HandleSaveTranscript(outcome) ==
    /\ writes < MaxWrites
    /\ writes' = writes + 1
    /\ IF outcome = "ok"
       THEN /\ tasksTable' = tasksTable \cup
                   {[id |-> <<"row", writes + 1>>, createdAt |-> ms,
                     title |-> "A", completed |-> FALSE]}
            /\ Emit(1)
       ELSE UNCHANGED <<tasksTable, events, missed>>
    /\ UNCHANGED <<ms, dbTasks, subscribed, fetches>>
    /\ UNCHANGED otherThanFeed

\* The channel's callback: an event arrives and fetchTasks() is called.
TasksChanged ==
    /\ events > 0
    /\ \E f \in Fetches :
          /\ fetches[f].phase = "none"
          /\ \A g \in 1..(f - 1) : fetches[g].phase # "none"
          /\ fetches' = [fetches EXCEPT ![f].phase = "sent"]
    /\ events' = events - 1
    /\ UNCHANGED <<ms, tasksTable, dbTasks, subscribed, writes, missed>>
    /\ UNCHANGED otherThanFeed

\* The store answers the select of fetch f.
FetchSelect(f, outcome) ==
    /\ fetches[f].phase = "sent"
    /\ fetches' = [fetches EXCEPT ![f] =
            IF outcome = "ok"
            THEN [phase |-> "data", data |-> OrderNewestFirst(tasksTable)]
            ELSE [phase |-> "error", data |-> <<>>]]
    /\ UNCHANGED <<ms, tasksTable, dbTasks, subscribed, events, writes, missed>>
    /\ UNCHANGED otherThanFeed

\* fetchTasks after its await: setDbTasks(formattedTasks), or the catch.
FetchTasksReturn(f) ==
    /\ fetches[f].phase \in {"data", "error"}
    /\ dbTasks' = IF fetches[f].phase = "data"
                  THEN FormattedTasks(fetches[f].data) ELSE dbTasks
    /\ fetches' = [fetches EXCEPT ![f] =
            [phase |-> IF fetches[f].phase = "data" THEN "done" ELSE "failed",
             data |-> <<>>]]
    /\ UNCHANGED <<ms, tasksTable, subscribed, events, writes, missed>>
    /\ UNCHANGED otherThanFeed

\* setupSubscriptions after `await Promise.all([fetchTasks(), ...])`.
Subscribe ==
    /\ ~subscribed
    /\ fetches[1].phase \in {"done", "failed"}
    /\ subscribed' = TRUE
    /\ UNCHANGED <<ms, tasksTable, dbTasks, events, fetches, writes, missed>>
    /\ UNCHANGED otherThanFeed

FeedIds == {dbTasks[i].id : i \in 1..Len(dbTasks)}

FeedNext ==
    \/ \E id \in FeedIds, outcome \in StoreOutcomes : HandleToggleTask(id, outcome)
    \/ \E id \in FeedIds, outcome \in StoreOutcomes : HandleDeleteTask(id, outcome)
    \/ \E outcome \in StoreOutcomes : HandleSaveTranscript(outcome)
    \/ TasksChanged
    \/ \E f \in Fetches, outcome \in StoreOutcomes : FetchSelect(f, outcome)
    \/ \E f \in Fetches : FetchTasksReturn(f)
    \/ Subscribe
    \/ TickMs

(***************************************************************************)
(* Part 4: the capture screen (VoiceCapture).                              *)
(***************************************************************************)
\* scheduledFor: null.
NoTime == -1
Confidences == {"high", "medium", "low"}
\* The candidates of a pipeline result: actionType and scheduledFor (0 is in
\* the past once the clock has moved, 2 is in the future).
Candidates == [title : {"A"}, actionType : {"note", "call"}, scheduledFor : {NoTime, 0, 2}]
CallCandidate == [title |-> "A", actionType |-> "call", scheduledFor |-> 2]
NoteCandidate == [title |-> "A", actionType |-> "note", scheduledFor |-> NoTime]
CandidateLists == {<<>>} \cup {<<c>> : c \in Candidates} \cup {<<NoteCandidate, CallCandidate>>}
\* data of a voice-to-text response, as setTranscriptionResult stores it.
PipelineResults == [confidence : Confidences, extractedTasks : CandidateLists]
\* setTranscriptionResult({})
NoResult == [confidence |-> "none", extractedTasks |-> <<>>]
\* handleSaveTranscript's fallback: a single task from the cleaned text.
FallbackTask == [title |-> "A", actionType |-> "none", scheduledFor |-> NoTime]
\* The callers of processAudio: onstop, Try Again (retryTranscription(false))
\* and Force Fix (retryTranscription(true)).
Origins == {"record", "retry", "force"}
\* The body of the request processAudio sends for a caller.
Body(origin) == [audio |-> TRUE, forceAggressiveCorrection |-> origin = "force"]
NoServed == [origin |-> "none", transcribed |-> FALSE, aggressive |-> FALSE]
\* serve of voice-to-text on a request it answers with data: it reads
\* `audio` alone from the body, sends it to Whisper, and builds the chat
\* completion prompt from the new transcript.
Serve(origin, body) ==
    [origin |-> origin, transcribed |-> body.audio, aggressive |-> FALSE]
\* The rows handleSaveTranscript inserts before it stops inserting.
MaxSaved == 3

CaptureInit ==
    /\ isProcessing = FALSE
    /\ showTranscriptPopup = FALSE
    /\ transcriptionResult = NoResult
    /\ lastAudioBlob = FALSE
    /\ requests = [o \in Origins |-> 0]
    /\ invoked = 0
    /\ served = NoServed
    /\ resultNo = 0
    /\ saving = [no |-> 0, len |-> 0]
    /\ savedOfResult = <<>>
    /\ savePc = "idle"
    /\ tasksToSave = <<>>
    /\ persisted = {}
    /\ task_id = [a \in ActionIds |-> NoTask.id]

\* processAudio(audioBlob, force): setIsProcessing(true), reader.onloadend is
\* registered, and its finally runs setIsProcessing(false) before it returns;
\* the request to voice-to-text is made later, from reader.onloadend.
ProcessAudio(origin) ==
    /\ invoked < MaxInvokes
    /\ invoked' = invoked + 1
    /\ isProcessing' = FALSE
    /\ requests' = [requests EXCEPT ![origin] = @ + 1]

\* mediaRecorder.onstop: the blob is kept and processed.
RecordingStopped ==
    /\ ~isProcessing
    /\ lastAudioBlob' = TRUE
    /\ ProcessAudio("record")
    /\ UNCHANGED <<served, now, tasksTable, showTranscriptPopup, transcriptionResult,
                   savePc, tasksToSave, persisted>>
    /\ UNCHANGED <<resultNo, saving, savedOfResult>>
    /\ UNCHANGED otherThanCapture

\* Try Again / Force Fix: retryTranscription(forceAggressiveCorrection).
RetryTranscription(forceAggressiveCorrection) ==
    /\ showTranscriptPopup /\ lastAudioBlob /\ ~isProcessing
    /\ ProcessAudio(IF forceAggressiveCorrection THEN "force" ELSE "retry")
    /\ UNCHANGED <<served, now, tasksTable, showTranscriptPopup, transcriptionResult,
                   lastAudioBlob, savePc, tasksToSave, persisted>>
    /\ UNCHANGED <<resultNo, saving, savedOfResult>>
    /\ UNCHANGED otherThanCapture

\* reader.onloadend after `await supabase.functions.invoke('voice-to-text')`:
\* with data the result is stored and the popup is shown; with an error it throws.
PipelineResponse(origin, outcome, data) ==
    /\ requests[origin] > 0
    /\ requests' = [requests EXCEPT ![origin] = @ - 1]
    /\ IF outcome = "ok"
       THEN /\ transcriptionResult' = data
            /\ showTranscriptPopup' = TRUE
       ELSE UNCHANGED <<transcriptionResult, showTranscriptPopup>>
    /\ served' = IF outcome = "ok" THEN Serve(origin, Body(origin)) ELSE served
    /\ UNCHANGED <<now, tasksTable, isProcessing, lastAudioBlob, invoked, savePc,
                   tasksToSave, persisted>>
    /\ resultNo' = IF outcome = "ok" THEN resultNo + 1 ELSE resultNo
    /\ UNCHANGED <<saving, savedOfResult>>
    /\ UNCHANGED otherThanCapture

\* Save: handleSaveTranscript up to its first insert.
SaveTranscriptStart ==
    /\ showTranscriptPopup /\ ~isProcessing
    /\ savePc = "idle"
    /\ Cardinality(persisted) < MaxSaved
    /\ isProcessing' = TRUE
    /\ tasksToSave' = IF transcriptionResult.extractedTasks = <<>>
                      THEN <<FallbackTask>>
                      ELSE transcriptionResult.extractedTasks
    /\ savePc' = "insert"
    /\ UNCHANGED <<served, now, tasksTable, showTranscriptPopup, transcriptionResult,
                   lastAudioBlob, requests, invoked, persisted>>
    /\ saving' = [no |-> resultNo, len |-> Len(tasksToSave')]
    /\ UNCHANGED <<resultNo, savedOfResult>>
    /\ UNCHANGED otherThanCapture

\* The row of insert([{title, description, priority, completed: false}]):
\* action_type and scheduled_for take the columns' defaults.
SavedRow(taskData, id) ==
    [id |-> id, createdAt |-> ms, title |-> taskData.title, completed |-> FALSE,
     action_type |-> "note", scheduled_for |-> NoTime]

\* One turn of its loop: the insert of one task, or the throw to its catch
\* and finally.
SaveTranscriptInsert(outcome) ==
    /\ savePc = "insert"
    /\ tasksToSave # <<>>
    /\ IF outcome = "ok"
       THEN LET id == <<"row", Cardinality(persisted) + 1>>
            IN /\ tasksTable' = tasksTable \cup {SavedRow(Head(tasksToSave), id)}
               /\ persisted' = persisted \cup
                      {[candidate |-> Head(tasksToSave), id |-> id, at |-> now]}
               /\ tasksToSave' = Tail(tasksToSave)
               /\ UNCHANGED <<isProcessing, savePc>>
       ELSE /\ isProcessing' = FALSE
            /\ savePc' = "idle"
            /\ tasksToSave' = <<>>
            /\ UNCHANGED <<tasksTable, persisted>>
    /\ UNCHANGED <<now, showTranscriptPopup, transcriptionResult, lastAudioBlob,
                   requests, invoked, served>>
    /\ savedOfResult' =
          IF outcome = "ok"
          THEN Append(savedOfResult, <<saving.no, saving.len - Len(tasksToSave) + 1>>)
          ELSE savedOfResult
    /\ UNCHANGED <<resultNo, saving>>
    /\ UNCHANGED otherThanCapture

\* After the loop: the result is cleared, the popup closed, and the finally.
SaveTranscriptDone ==
    /\ savePc = "insert"
    /\ tasksToSave = <<>>
    /\ transcriptionResult' = NoResult
    /\ showTranscriptPopup' = FALSE
    /\ lastAudioBlob' = FALSE
    /\ isProcessing' = FALSE
    /\ savePc' = "idle"
    /\ UNCHANGED <<served, now, tasksTable, requests, invoked, tasksToSave, persisted>>
    /\ UNCHANGED <<resultNo, saving, savedOfResult>>
    /\ UNCHANGED otherThanCapture

\* Cancel: handleCancelTranscript.
HandleCancelTranscript ==
    /\ showTranscriptPopup /\ ~isProcessing
    /\ transcriptionResult' = NoResult
    /\ showTranscriptPopup' = FALSE
    /\ lastAudioBlob' = FALSE
    /\ UNCHANGED <<served, now, tasksTable, isProcessing, requests, invoked, savePc,
                   tasksToSave, persisted>>
    /\ UNCHANGED <<resultNo, saving, savedOfResult>>
    /\ UNCHANGED otherThanCapture

CaptureNext ==
    \/ RecordingStopped
    \/ \E forceAggressiveCorrection \in BOOLEAN :
          RetryTranscription(forceAggressiveCorrection)
    \/ \E origin \in Origins, outcome \in StoreOutcomes, data \in PipelineResults :
          PipelineResponse(origin, outcome, data)
    \/ SaveTranscriptStart
    \/ \E outcome \in StoreOutcomes : SaveTranscriptInsert(outcome)
    \/ SaveTranscriptDone
    \/ HandleCancelTranscript
    \/ Tick

(***************************************************************************)
(* Part 5: scheduled_actions.task_id, the foreign key to tasks.            *)
(***************************************************************************)
\* The uuids a caller of createScheduledAction can pass as task_id.
TaskIds == {<<"row", n>> : n \in 0..MaxWrites}

\* The foreign key is checked against a lenient one below.
TaskExistsUnchecked(id) == TRUE
\* REFERENCES public.tasks(id): the insert is rejected unless the task exists.
TaskExists(id) == \E r \in tasksTable : r.id = id

\* createScheduledAction(actionData): the insert of a row that carries
\* actionData.task_id; a rejected insert changes nothing.
CreateScheduledAction(a, taskId, t, sf, s) ==
    /\ scheduled_actions[a].status = "absent"
    /\ TaskExists(taskId)
    /\ scheduled_actions' = [scheduled_actions EXCEPT ![a] =
            [status |-> s, action_type |-> t, scheduled_for |-> sf, web_push |-> TRUE]]
    /\ task_id' = [task_id EXCEPT ![a] = taskId]
    /\ UNCHANGED <<tasksTable, ms, feedVars>>
    /\ UNCHANGED otherThanDelete

\* The action type the callers pass here: the key does not depend on it.
LinkActionTypes == {"reminder"}

\* The task list with its writers of the tasks table (the client's clock
\* stands still), and the callers of createScheduledAction.
LinksNext ==
    \/ \E id \in FeedIds, outcome \in StoreOutcomes : HandleToggleTask(id, outcome)
    \/ \E id \in FeedIds, outcome \in StoreOutcomes : HandleDeleteTask(id, outcome)
    \/ \E outcome \in StoreOutcomes : HandleSaveTranscript(outcome)
    \/ TasksChanged
    \/ \E f \in Fetches, outcome \in StoreOutcomes : FetchSelect(f, outcome)
    \/ \E f \in Fetches : FetchTasksReturn(f)
    \/ Subscribe
    \/ \E a \in ActionIds, taskId \in TaskIds, t \in LinkActionTypes, sf \in ScheduleTimes,
          s \in InsertStatuses : CreateScheduledAction(a, taskId, t, sf, s)

(***************************************************************************)
(* Part 6: the voice-to-text edge function: parseTimeExpression and the    *)
(* extraction, fallback and response of serve.  A text is a sequence of    *)
(* one-character strings; an instant is a number of milliseconds, which    *)
(* its ISO string names exactly; NoTime stands for null.                   *)
(***************************************************************************)
\* The characters of a text from position i on start with the pattern.
StartsAt(text, i, pattern) ==
    /\ i >= 1
    /\ i + Len(pattern) - 1 <= Len(text)
    /\ SubSeq(text, i, i + Len(pattern) - 1) = pattern

\* String.prototype.includes.
Includes(text, pattern) == \E i \in 1..Len(text) : StartsAt(text, i, pattern)

CharAt(text, i) == IF i \in 1..Len(text) THEN text[i] ELSE ""

\* String.prototype.toLowerCase.
ToLowerCase(text) ==
    LET upper == <<"A", "B", "C", "D", "E", "F", "G", "H", "I", "J", "K", "L", "M", "N", "O", "P", "Q", "R", "S", "T", "U", "V", "W", "X", "Y", "Z">>
        lower == <<"a", "b", "c", "d", "e", "f", "g", "h", "i", "j", "k", "l", "m", "n", "o", "p", "q", "r", "s", "t", "u", "v", "w", "x", "y", "z">>
    IN  [i \in 1..Len(text) |->
            IF \E k \in 1..Len(upper) : upper[k] = text[i]
            THEN lower[CHOOSE k \in 1..Len(upper) : upper[k] = text[i]]
            ELSE text[i]]

\* String.prototype.slice(0, n).
Slice(text, n) == SubSeq(text, 1, IF Len(text) < n THEN Len(text) ELSE n)

DigitChars == <<"0", "1", "2", "3", "4", "5", "6", "7", "8", "9">>
IsDigit(c) == \E d \in 1..Len(DigitChars) : DigitChars[d] = c

\* The last position of the run of digits that starts at i (i - 1: no digit).
RECURSIVE DigitsEnd(_, _)
DigitsEnd(text, i) ==
    IF IsDigit(CharAt(text, i)) THEN DigitsEnd(text, i + 1) ELSE i - 1

\* parseInt of a run of digits.
RECURSIVE ParseInt(_)
ParseInt(digits) ==
    IF digits = <<>> THEN 0
    ELSE ParseInt(SubSeq(digits, 1, Len(digits) - 1)) * 10
         + (CHOOSE d \in 1..Len(DigitChars) : DigitChars[d] = digits[Len(digits)]) - 1

\* The keys of numberWords in insertion order, with their values.  The
\* minutes branch has all twenty, the hours branch the first twelve and the
\* days branch the first seven.
numberWords == <<
    [word |-> <<"o", "n", "e">>, value |-> 1],
    [word |-> <<"t", "w", "o">>, value |-> 2],
    [word |-> <<"t", "h", "r", "e", "e">>, value |-> 3],
    [word |-> <<"f", "o", "u", "r">>, value |-> 4],
    [word |-> <<"f", "i", "v", "e">>, value |-> 5],
    [word |-> <<"s", "i", "x">>, value |-> 6],
    [word |-> <<"s", "e", "v", "e", "n">>, value |-> 7],
    [word |-> <<"e", "i", "g", "h", "t">>, value |-> 8],
    [word |-> <<"n", "i", "n", "e">>, value |-> 9],
    [word |-> <<"t", "e", "n">>, value |-> 10],
    [word |-> <<"e", "l", "e", "v", "e", "n">>, value |-> 11],
    [word |-> <<"t", "w", "e", "l", "v", "e">>, value |-> 12],
    [word |-> <<"t", "h", "i", "r", "t", "e", "e", "n">>, value |-> 13],
    [word |-> <<"f", "o", "u", "r", "t", "e", "e", "n">>, value |-> 14],
    [word |-> <<"f", "i", "f", "t", "e", "e", "n">>, value |-> 15],
    [word |-> <<"s", "i", "x", "t", "e", "e", "n">>, value |-> 16],
    [word |-> <<"s", "e", "v", "e", "n", "t", "e", "e", "n">>, value |-> 17],
    [word |-> <<"e", "i", "g", "h", "t", "e", "e", "n">>, value |-> 18],
    [word |-> <<"n", "i", "n", "e", "t", "e", "e", "n">>, value |-> 19],
    [word |-> <<"t", "w", "e", "n", "t", "y">>, value |-> 20]>>

In == <<"i", "n", " ">>
MinuteUnits == {<<"m", "i", "n", "u", "t", "e">>, <<"m", "i", "n">>}
HourUnits == {<<"h", "o", "u", "r">>, <<"h", "r">>}
DayUnits == {<<"d", "a", "y">>}

\* /in (?:(\d+)|one|...) (?:unit|...)/ matches at position i: by the digits
\* alternative, or by one of the words the table spells.
DigitMatchAt(text, i, units) ==
    /\ StartsAt(text, i, In)
    /\ DigitsEnd(text, i + Len(In)) >= i + Len(In)
    /\ \E u \in units : StartsAt(text, DigitsEnd(text, i + Len(In)) + 1, <<" ">> \o u)
MatchAt(text, i, table, units) ==
    \/ DigitMatchAt(text, i, units)
    \/ /\ StartsAt(text, i, In)
       /\ \E k \in 1..Len(table), u \in units :
             StartsAt(text, i + Len(In), table[k].word \o <<" ">> \o u)

\* text.match(...): is there a match, and capture group 1 of the leftmost
\* one (<<>> when a word matched).
Matches(text, table, units) == \E i \in 1..Len(text) : MatchAt(text, i, table, units)
Group1(text, table, units) ==
    LET i == CHOOSE p \in 1..Len(text) :
                 /\ MatchAt(text, p, table, units)
                 /\ \A q \in 1..(p - 1) : ~MatchAt(text, q, table, units)
    IN  IF DigitMatchAt(text, i, units)
        THEN SubSeq(text, i + Len(In), DigitsEnd(text, i + Len(In)))
        ELSE <<>>

\* Object.keys(numberWords).find(word => text.includes(word)): the value of
\* the first key the whole text includes, 0 when it includes none.
FoundWord(text, table) ==
    IF \E k \in 1..Len(table) : Includes(text, table[k].word)
    THEN table[CHOOSE k \in 1..Len(table) :
                  /\ Includes(text, table[k].word)
                  /\ \A j \in 1..(k - 1) : ~Includes(text, table[j].word)].value
    ELSE 0

\* The amount of one branch: 0 when its expression does not match.
Amount(text, table, units) ==
    IF ~Matches(text, table, units) THEN 0
    ELSE IF Group1(text, table, units) # <<>> THEN ParseInt(Group1(text, table, units))
    ELSE FoundWord(text, table)

At == <<"a", "t", " ">>
Tomorrow == <<"t", "o", "m", "o", "r", "r", "o", "w">>
NextWeek == <<"n", "e", "x", "t", " ", "w", "e", "e", "k">>

\* setHours left out: the time of day of the instant is kept.
StartOfDayKept(t) == t

\* The start of the day of an instant (the function runs in UTC).
StartOfDay(t) == t - (t % (24 * 60 * 60 * 1000))

\* /at (\d{1,2}):?(\d{2})?\s*(am|pm)?/: every part after the first digit is
\* optional, so the leftmost "at " before a digit matches, greedily.
TimeMatchAt(text, i) == StartsAt(text, i, At) /\ IsDigit(CharAt(text, i + Len(At)))
RECURSIVE SkipSpaces(_, _)
SkipSpaces(text, i) == IF CharAt(text, i) = " " THEN SkipSpaces(text, i + 1) ELSE i
TimeOfDay(text) ==
    LET i == CHOOSE p \in 1..Len(text) :
                 TimeMatchAt(text, p) /\ \A q \in 1..(p - 1) : ~TimeMatchAt(text, q)
        h1 == i + Len(At)
        h2 == IF IsDigit(CharAt(text, h1 + 1)) THEN h1 + 1 ELSE h1
        c == IF CharAt(text, h2 + 1) = ":" THEN h2 + 2 ELSE h2 + 1
        twoDigits == IsDigit(CharAt(text, c)) /\ IsDigit(CharAt(text, c + 1))
        minutes == IF twoDigits THEN ParseInt(SubSeq(text, c, c + 1)) ELSE 0
        p == SkipSpaces(text, IF twoDigits THEN c + 2 ELSE c)
        hours == ParseInt(SubSeq(text, h1, h2))
        hours24 == IF StartsAt(text, p, <<"p", "m">>) /\ hours # 12 THEN hours + 12
                   ELSE IF StartsAt(text, p, <<"a", "m">>) /\ hours = 12 THEN 0
                   ELSE hours
    IN  hours24 * 60 * 60 * 1000 + minutes * 60 * 1000

\* The "tomorrow" and "next week" branches, the same in both copies.
DayExpression(text, baseTime) ==
    IF Includes(text, Tomorrow)
    THEN StartOfDay(baseTime) + 24 * 60 * 60 * 1000
         + (IF \E i \in 1..Len(text) : TimeMatchAt(text, i)
            THEN TimeOfDay(text)
            ELSE 9 * 60 * 60 * 1000)
    ELSE IF Includes(text, NextWeek)
    THEN StartOfDay(baseTime) + 7 * 24 * 60 * 60 * 1000 + 9 * 60 * 60 * 1000
    ELSE NoTime

\* parseTimeExpression(timeText, baseTime) of the deployed function.
ParseTimeExpression(timeText, baseTime) ==
    LET text == ToLowerCase(timeText)
        minutes == Amount(text, numberWords, MinuteUnits)
        hours == Amount(text, SubSeq(numberWords, 1, 12), HourUnits)
        days == Amount(text, SubSeq(numberWords, 1, 7), DayUnits)
    IN  IF Includes(text, In) /\ minutes > 0 THEN baseTime + minutes * 60 * 1000
        ELSE IF Includes(text, In) /\ hours > 0 THEN baseTime + hours * 60 * 60 * 1000
        ELSE IF Includes(text, In) /\ days > 0 THEN baseTime + days * 24 * 60 * 60 * 1000
        ELSE DayExpression(text, baseTime)

\* parseTimeExpression of the earlier copy: /in (\d+) minutes?/ and its
\* like, digits only, and a match returns whatever parseInt gives.
ParseTimeExpressionEarlier(timeText, baseTime) ==
    LET text == ToLowerCase(timeText)
        relative == Includes(text, In)
        minute == {<<"m", "i", "n", "u", "t", "e">>}
        hour == {<<"h", "o", "u", "r">>}
    IN  IF relative /\ Matches(text, <<>>, minute)
        THEN baseTime + Amount(text, <<>>, minute) * 60 * 1000
        ELSE IF relative /\ Matches(text, <<>>, hour)
        THEN baseTime + Amount(text, <<>>, hour) * 60 * 60 * 1000
        ELSE IF relative /\ Matches(text, <<>>, DayUnits)
        THEN baseTime + Amount(text, <<>>, DayUnits) * 24 * 60 * 60 * 1000
        ELSE DayExpression(text, baseTime)

\* The transcripts Whisper returns here: "in N unit" for N from one to
\* twenty, in digits and spelled, and a few sentences.
RECURSIVE DigitsOf(_)
DigitsOf(n) ==
    IF n < 10 THEN <<DigitChars[n + 1]>>
    ELSE DigitsOf(n \div 10) \o <<DigitChars[(n % 10) + 1]>>
Numbers == 1..Len(numberWords)
UnitNouns == {<<"m", "i", "n", "u", "t", "e">>, <<"h", "o", "u", "r">>, <<"d", "a", "y">>}
Plural(n, noun) == IF n = 1 THEN noun ELSE noun \o <<"s">>
InDigits(n, noun) == In \o DigitsOf(n) \o <<" ">> \o Plural(n, noun)
InWords(n, noun) == In \o numberWords[n].word \o <<" ">> \o Plural(n, noun)
\* "tomorrow", and "tomorrow at H am|pm" and "tomorrow at H:30 am|pm" for the
\* hours of the 12-hour clock.
Periods == {<<"a", "m">>, <<"p", "m">>}
MinuteTexts == {<<>>, <<":", "3", "0">>}
TomorrowAt(h, mm, period) == Tomorrow \o <<" ">> \o At \o DigitsOf(h) \o mm \o period
Transcripts ==
    {InDigits(n, noun) : n \in Numbers, noun \in UnitNouns}
        \cup {InWords(n, noun) : n \in Numbers, noun \in UnitNouns}
        \cup {TomorrowAt(h, mm, period) : h \in 1..12, mm \in MinuteTexts, period \in Periods}
        \cup {Tomorrow}
        \cup {
            \* remind me to call nigel
            <<"r", "e", "m", "i", "n", "d", " ", "m", "e", " ", "t", "o", " ", "c", "a", "l", "l", " ", "n", "i", "g", "e", "l">>,
            \* Remind me in ten minutes to call nigel
            <<"R", "e", "m", "i", "n", "d", " ", "m", "e", " ", "i", "n", " ", "t", "e", "n", " ", "m", "i", "n", "u", "t", "e", "s", " ", "t", "o", " ", "c", "a", "l", "l", " ", "n", "i", "g", "e", "l">>,
            \* remind me in 2 hours to send the quarterly report to the whole team
            <<"r", "e", "m", "i", "n", "d", " ", "m", "e", " ", "i", "n", " ", "2", " ", "h", "o", "u", "r", "s", " ", "t", "o", " ", "s", "e", "n", "d", " ", "t", "h", "e", " ", "q", "u", "a", "r", "t", "e", "r", "l", "y", " ", "r", "e", "p", "o", "r", "t", " ", "t", "o", " ", "t", "h", "e", " ", "w", "h", "o", "l", "e", " ", "t", "e", "a", "m">>,
            \* buy milk
            <<"b", "u", "y", " ", "m", "i", "l", "k">>,
            \* call mom tomorrow at 3pm
            <<"c", "a", "l", "l", " ", "m", "o", "m", " ", "t", "o", "m", "o", "r", "r", "o", "w", " ", "a", "t", " ", "3", "p", "m">>,
            \* email the report next week
            <<"e", "m", "a", "i", "l", " ", "t", "h", "e", " ", "r", "e", "p", "o", "r", "t", " ", "n", "e", "x", "t", " ", "w", "e", "e", "k">>}

\* new Date() at the invocation: the epoch, and a day, an hour, a minute and
\* a second after it.  The clock stands still during one invocation.
ReferenceTimes == {0, ((24 * 60 + 61) * 60 + 1) * 1000}

\* What the chat completion can carry in choices[0].message.content: the
\* candidates with the scheduledFor the model proposes, and a confidence or
\* none.  The fields no property reads (cleanedText, improvements, priority,
\* description, contactInfo) are left out.
Absent == "absent"
Proposals == {NoTime, 5000}
ProposedLists ==
    LET Proposed(n, p) == [title |-> <<"t", DigitChars[n + 1]>>,
                           actionType |-> "reminder", scheduledFor |-> p]
    IN  {<<>>} \cup {<<Proposed(1, p)>> : p \in Proposals}
            \cup {<<Proposed(1, p), Proposed(2, q)>> : p \in Proposals, q \in Proposals}
ParsedResults ==
    [extractedTasks : ProposedLists, confidence : {"high", Absent},
     potentialErrors : {Absent}]
NoParsed == [extractedTasks |-> <<>>, confidence |-> Absent, potentialErrors |-> Absent]

\* How the chat completion call ends: fetch rejects; a non-2xx response; a
\* 2xx body that is not JSON; a 2xx body without choices; content that is
\* not JSON; content that parses.
ChatOutcomes == {"exception", "non_ok", "bad_body", "no_choices", "unparsable", "parsed"}
NoChat == [outcome |-> "none", parsedResult |-> NoParsed]

\* parseTimeExpression as the copy that serves the invocation defines it.
Parse(version, timeText, baseTime) ==
    IF version = "current" THEN ParseTimeExpression(timeText, baseTime)
    ELSE ParseTimeExpressionEarlier(timeText, baseTime)

\* let analysisResult = {...}: the default.
DefaultAnalysis == [extractedTasks |-> <<>>, confidence |-> "medium", potentialErrors |-> <<>>]

\* The map over parsedResult.extractedTasks.  The deployed copy assigns the
\* parsed time or null; the earlier copy assigns only a parsed time.
ProcessTask(version, task, raw, t) ==
    LET parsedTime == Parse(version, raw, t)
    IN  IF version = "current" \/ parsedTime # NoTime
        THEN [task EXCEPT !.scheduledFor = parsedTime]
        ELSE task

\* The try block: the analysis spreads parsedResult, with "medium" and []
\* for a confidence and potentialErrors it lacks.
ParsedAnalysis(version, parsedResult, raw, t) ==
    [extractedTasks |-> [i \in 1..Len(parsedResult.extractedTasks) |->
                            ProcessTask(version, parsedResult.extractedTasks[i], raw, t)],
     confidence |-> IF parsedResult.confidence = Absent THEN "medium"
                    ELSE parsedResult.confidence,
     potentialErrors |-> IF parsedResult.potentialErrors = Absent THEN <<>>
                         ELSE parsedResult.potentialErrors]

\* The catch block of the parse: the keyword fallback.  The trigger words in
\* the order of the if chain, with the actionType of each.
TitleLength == 50
Keywords == <<[word |-> <<"r", "e", "m", "i", "n", "d">>, actionType |-> "reminder"],
              [word |-> <<"c", "a", "l", "l">>, actionType |-> "call"],
              [word |-> <<"t", "e", "x", "t">>, actionType |-> "text"],
              [word |-> <<"e", "m", "a", "i", "l">>, actionType |-> "email"]>>
KeywordFallback(version, raw, t) ==
    LET text == ToLowerCase(raw)
        found == {k \in 1..Len(Keywords) : Includes(text, Keywords[k].word)}
    IN  IF found # {}
        THEN [DefaultAnalysis EXCEPT !.extractedTasks =
                 <<[title |-> Slice(raw, TitleLength),
                    actionType |-> Keywords[CHOOSE k \in found :
                                               \A j \in found : k <= j].actionType,
                    scheduledFor |-> Parse(version, text, t)]>>]
        ELSE DefaultAnalysis

\* The else branch of chatgptResponse.ok.
NonOkFallback(version, raw, t) ==
    LET parsedTime == Parse(version, ToLowerCase(raw), t)
    IN  IF parsedTime # NoTime
        THEN [DefaultAnalysis EXCEPT !.extractedTasks =
                 <<[title |-> Slice(raw, TitleLength),
                    actionType |-> "reminder",
                    scheduledFor |-> parsedTime]>>]
        ELSE DefaultAnalysis

\* The outcomes that throw past the extraction: fetch rejects; response.json()
\* rejects; choices[0] of undefined, thrown again by the catch block's log.
Throws(outcome) == outcome \in {"exception", "bad_body", "no_choices"}

Analysis(version, chat, raw, t) ==
    IF chat.outcome = "parsed" THEN ParsedAnalysis(version, chat.parsedResult, raw, t)
    ELSE IF chat.outcome = "unparsable" THEN KeywordFallback(version, raw, t)
    ELSE NonOkFallback(version, raw, t)

\* The two responses.
NoResponse == [status |-> 0, success |-> FALSE, analysis |-> DefaultAnalysis]
ErrorResponse == [status |-> 500, success |-> FALSE, analysis |-> DefaultAnalysis]
SuccessResponse(analysis) == [status |-> 200, success |-> TRUE, analysis |-> analysis]

VoiceInit ==
    /\ vtPc = "idle"
    /\ deployed = "current"
    /\ supabaseConfigured = TRUE
    /\ rawTranscription = <<>>
    /\ vtNow = 0
    /\ chatgpt = NoChat
    /\ vtResponse = NoResponse
    /\ whisper = "none"
    /\ inserted = 0

\* serve up to the chat completion call: Whisper answers with a transcript.
Transcribed(version, configured, text, t) ==
    /\ vtPc = "idle"
    /\ vtPc' = "analysing"
    /\ deployed' = version
    /\ supabaseConfigured' = configured
    /\ rawTranscription' = text
    /\ vtNow' = t
    /\ whisper' = "ok"
    /\ UNCHANGED <<chatgpt, vtResponse, inserted>>
    /\ UNCHANGED otherThanVoice

\* The throw of !whisperResponse.ok left out: serve goes on without a
\* transcript.
WhisperFailedIgnored ==
    /\ vtPc = "idle"
    /\ vtPc' = "analysing"
    /\ whisper' = "failed"
    /\ UNCHANGED <<deployed, supabaseConfigured, rawTranscription, vtNow, chatgpt,
                   vtResponse, inserted>>
    /\ UNCHANGED otherThanVoice

\* serve when Whisper answers non-2xx: the outer catch.
WhisperFailed ==
    /\ vtPc = "idle"
    /\ vtPc' = "done"
    /\ whisper' = "failed"
    /\ vtResponse' = ErrorResponse
    /\ UNCHANGED <<deployed, supabaseConfigured, rawTranscription, vtNow, chatgpt,
                   inserted>>
    /\ UNCHANGED otherThanVoice

\* serve from the end of the chat completion call to its response; the
\* insert into transcriptions writes a row or returns an error, which is
\* only logged.
ChatGptReturns(outcome, parsedResult) ==
    /\ vtPc = "analysing"
    /\ outcome = "parsed" \/ parsedResult = NoParsed
    /\ vtPc' = "done"
    /\ chatgpt' = [outcome |-> outcome, parsedResult |-> parsedResult]
    /\ vtResponse' =
          IF Throws(outcome) \/ ~supabaseConfigured THEN ErrorResponse
          ELSE SuccessResponse(Analysis(deployed, chatgpt', rawTranscription, vtNow))
    /\ \E saved \in StoreOutcomes :
          inserted' = IF Throws(outcome) \/ ~supabaseConfigured \/ saved = "error"
                      THEN 0 ELSE 1
    /\ UNCHANGED <<deployed, supabaseConfigured, rawTranscription, vtNow, whisper>>
    /\ UNCHANGED otherThanVoice

\* The response is delivered; the next invocation starts afresh.
Responded ==
    /\ vtPc = "done"
    /\ vtPc' = "idle"
    /\ deployed' = "current"
    /\ supabaseConfigured' = TRUE
    /\ rawTranscription' = <<>>
    /\ vtNow' = 0
    /\ chatgpt' = NoChat
    /\ vtResponse' = NoResponse
    /\ whisper' = "none"
    /\ inserted' = 0
    /\ UNCHANGED otherThanVoice

VoiceNext ==
    \/ \E version \in {"current", "earlier"}, configured \in BOOLEAN,
          text \in Transcripts, t \in ReferenceTimes :
          Transcribed(version, configured, text, t)
    \/ WhisperFailed
    \/ \E outcome \in ChatOutcomes, parsedResult \in ParsedResults \cup {NoParsed} :
          ChatGptReturns(outcome, parsedResult)
    \/ Responded

(***************************************************************************)
(* Part 7: the useAudioRecording hook.  The component renders between two  *)
(* events, so a callback the user reaches reads the current isRecording;   *)
(* the callback of the auto-stop timer is the stopRecording of the render  *)
(* in which startRecording was created, and reads that render's value.     *)
(***************************************************************************)
MaxRecordingTime == 4
MaxChunks == 4
MaxPending == 2
MaxStreams == 3

RecordingInit ==
    /\ isRecording = FALSE
    /\ recordingTime = 0
    /\ mediaRecorderRef = "null"
    /\ audioChunks = 0
    /\ streamRef = "null"
    /\ timeoutRef = "null"
    /\ timerClosure = FALSE
    /\ stopEvent = FALSE
    /\ autoStopFired = FALSE
    /\ pendingStarts = 0
    /\ liveStreams = 0
    /\ activeRecorders = 0

\* stopRecording as a closure over a value of isRecording: what it leaves in
\* mediaRecorderRef, isRecording and stopEvent.
StopRecording(closedOver) ==
    IF mediaRecorderRef # "null" /\ closedOver
    THEN /\ mediaRecorderRef' = "inactive"
         /\ activeRecorders' = IF mediaRecorderRef = "recording"
                               THEN activeRecorders - 1 ELSE activeRecorders
         /\ isRecording' = FALSE
         /\ stopEvent' = TRUE
    ELSE UNCHANGED <<mediaRecorderRef, activeRecorders, isRecording, stopEvent>>

\* cleanup(): the timers are cleared, the tracks of the stream streamRef
\* holds are stopped, and the refs and recordingTime are reset.  A recorder
\* that is recording that stream ends with its tracks.
Cleanup ==
    /\ timeoutRef' = "null"
    /\ liveStreams' = IF streamRef = "live" THEN liveStreams - 1 ELSE liveStreams
    /\ activeRecorders' = IF streamRef = "live" /\ mediaRecorderRef = "recording"
                          THEN activeRecorders - 1 ELSE activeRecorders
    /\ streamRef' = "null"
    /\ mediaRecorderRef' = "null"
    /\ recordingTime' = 0

\* startRecording up to its await of getUserMedia.
StartRecording ==
    /\ ~isRecording
    /\ pendingStarts < MaxPending
    /\ liveStreams + pendingStarts < MaxStreams
    /\ pendingStarts' = pendingStarts + 1
    /\ UNCHANGED <<isRecording, recordingTime, mediaRecorderRef, audioChunks, streamRef,
                   timeoutRef, timerClosure, stopEvent, autoStopFired, liveStreams,
                   activeRecorders>>
    /\ UNCHANGED otherThanRecording

\* startRecording after getUserMedia grants the microphone: the stream and
\* a recorder are put in the refs, the recorder is started, and the timers
\* are set; the timer's stopRecording is the one of the render of the call.
MicrophoneGranted ==
    /\ pendingStarts > 0
    /\ pendingStarts' = pendingStarts - 1
    /\ liveStreams' = liveStreams + 1
    /\ streamRef' = "live"
    /\ mediaRecorderRef' = "recording"
    /\ activeRecorders' = activeRecorders + 1
    /\ audioChunks' = 0
    /\ isRecording' = TRUE
    /\ timeoutRef' = "armed"
    /\ timerClosure' = FALSE
    /\ autoStopFired' = FALSE
    /\ UNCHANGED <<recordingTime, stopEvent>>
    /\ UNCHANGED otherThanRecording

\* startRecording when getUserMedia rejects: the catch runs cleanup.
MicrophoneDenied ==
    /\ pendingStarts > 0
    /\ pendingStarts' = pendingStarts - 1
    /\ Cleanup
    /\ UNCHANGED <<isRecording, audioChunks, timerClosure, stopEvent, autoStopFired>>
    /\ UNCHANGED otherThanRecording

\* The interval's callback, once a second while the interval is set.
IntervalTick ==
    /\ timeoutRef # "null"
    /\ recordingTime < MaxRecordingTime
    /\ recordingTime' = recordingTime + 1
    /\ UNCHANGED <<isRecording, mediaRecorderRef, audioChunks, streamRef, timeoutRef,
                   timerClosure, stopEvent, autoStopFired, pendingStarts, liveStreams,
                   activeRecorders>>
    /\ UNCHANGED otherThanRecording

\* mediaRecorder.ondataavailable.
DataAvailable ==
    /\ mediaRecorderRef = "recording"
    /\ audioChunks < MaxChunks
    /\ audioChunks' = audioChunks + 1
    /\ UNCHANGED <<isRecording, recordingTime, mediaRecorderRef, streamRef, timeoutRef,
                   timerClosure, stopEvent, autoStopFired, pendingStarts, liveStreams,
                   activeRecorders>>
    /\ UNCHANGED otherThanRecording

\* The user stops the recording: the stopRecording of the current render.
UserStops ==
    /\ isRecording
    /\ StopRecording(isRecording)
    /\ UNCHANGED <<recordingTime, audioChunks, streamRef, timeoutRef, timerClosure,
                   autoStopFired, pendingStarts, liveStreams>>
    /\ UNCHANGED otherThanRecording

\* The auto-stop timer fires after maxDuration.
AutoStop ==
    /\ timeoutRef = "armed"
    /\ timeoutRef' = "fired"
    /\ autoStopFired' = TRUE
    /\ StopRecording(timerClosure)
    /\ UNCHANGED <<recordingTime, audioChunks, streamRef, timerClosure, pendingStarts,
                   liveStreams>>
    /\ UNCHANGED otherThanRecording

\* mediaRecorder.onstop: the blob is read and cleanup runs.
OnStop ==
    /\ stopEvent
    /\ stopEvent' = FALSE
    /\ Cleanup
    /\ UNCHANGED <<isRecording, audioChunks, timerClosure, autoStopFired, pendingStarts>>
    /\ UNCHANGED otherThanRecording

\* mediaRecorder.onerror of the recorder mediaRecorderRef holds: onError is
\* called and cleanup runs.
OnError ==
    /\ mediaRecorderRef = "recording"
    /\ Cleanup
    /\ UNCHANGED <<isRecording, audioChunks, timerClosure, stopEvent, autoStopFired,
                   pendingStarts>>
    /\ UNCHANGED otherThanRecording

\* The cleanup the hook returns, called by the component that uses it.
CleanupCalled ==
    /\ mediaRecorderRef # "null" \/ streamRef # "null" \/ timeoutRef # "null"
    /\ Cleanup
    /\ UNCHANGED <<isRecording, audioChunks, timerClosure, stopEvent, autoStopFired,
                   pendingStarts>>
    /\ UNCHANGED otherThanRecording

RecordingNext ==
    \/ StartRecording
    \/ MicrophoneGranted
    \/ MicrophoneDenied
    \/ IntervalTick
    \/ DataAvailable
    \/ UserStops
    \/ AutoStop
    \/ OnStop
    \/ OnError
    \/ CleanupCalled

(***************************************************************************)
(* Part 8: the ids NativeNotificationService gives to local notifications, *)
(* on a native platform.  The device keeps what was scheduled when the app *)
(* restarts; the service and its counter are created anew.                 *)
(***************************************************************************)
MaxAssigned == 4

NotificationInit ==
    /\ notificationCounter = 1
    /\ assignedIds = <<>>
    /\ localNotifications = {}

\* The rows the select of scheduleActionsFromDatabase can return, in order.
PendingSelections ==
    {<<>>} \cup {<<a>> : a \in ActionIds}
        \cup {<<p[1], p[2]>> : p \in {q \in ActionIds \X ActionIds : q[1] # q[2]}}

\* scheduleActionsFromDatabase: each row gets notificationCounter++, and
\* LocalNotifications.schedule replaces a notification of the same id.
ScheduleActionsFromDatabase(pendingActions) ==
    LET ids == [i \in 1..Len(pendingActions) |-> notificationCounter + i - 1]
        scheduled == {[id |-> ids[i], actionId |-> pendingActions[i]] :
                         i \in 1..Len(pendingActions)}
    IN  /\ Len(assignedIds) + Len(pendingActions) <= MaxAssigned
        /\ notificationCounter' = notificationCounter + Len(pendingActions)
        /\ assignedIds' = assignedIds \o ids
        /\ localNotifications' =
              {n \in localNotifications : \A i \in 1..Len(ids) : n.id # ids[i]}
                  \cup scheduled
        /\ UNCHANGED otherThanNotification

\* getNextNotificationId.
GetNextNotificationId ==
    /\ Len(assignedIds) < MaxAssigned
    /\ notificationCounter' = notificationCounter + 1
    /\ assignedIds' = Append(assignedIds, notificationCounter)
    /\ UNCHANGED localNotifications
    /\ UNCHANGED otherThanNotification

\* The device delivers a notification at its time.
Delivered(n) ==
    /\ n \in localNotifications
    /\ localNotifications' = localNotifications \ {n}
    /\ UNCHANGED <<notificationCounter, assignedIds>>
    /\ UNCHANGED otherThanNotification

\* The app restarts: the module creates a new NativeNotificationService.
ServiceCreated ==
    /\ notificationCounter # 1
    /\ notificationCounter' = 1
    /\ UNCHANGED <<assignedIds, localNotifications>>
    /\ UNCHANGED otherThanNotification

NotificationNext ==
    \/ \E pendingActions \in PendingSelections : ScheduleActionsFromDatabase(pendingActions)
    \/ GetNextNotificationId
    \/ \E n \in localNotifications : Delivered(n)
    \/ ServiceCreated

(***************************************************************************)
(* Part 9: ProcessingTimer, as serve of voice-to-text uses it: a timer is  *)
(* made when the request arrives, a stage is marked after each step, and   *)
(* getAllTimings is called for the response.                               *)
(***************************************************************************)
MaxDateNow == 3

\* The stages serve marks, in its order.
StageNames == <<"request_parsed", "audio_processed", "formdata_prepared",
                "whisper_completed", "chatgpt_completed", "database_saved">>

NoTimings == [stages |-> <<>>, totalTime |-> 0 - 1]

\* new ProcessingTimer() of the first request.
TimerInit ==
    /\ dateNow = 0
    /\ startTime = 0
    /\ stages = <<>>
    /\ markedAt = <<>>
    /\ timings = NoTimings

\* Time passes while a step of serve runs.
ClockAdvances ==
    /\ dateNow < MaxDateNow
    /\ dateNow' = dateNow + 1
    /\ UNCHANGED <<startTime, stages, markedAt, timings>>
    /\ UNCHANGED otherThanTimer

\* The value markStage stores for a stage that ends at `t`.
SinceStart(t) == t - startTime

\* markStage(stageName) for the next stage of serve.
MarkStage ==
    /\ timings = NoTimings
    /\ Len(stages) < Len(StageNames)
    /\ stages' = Append(stages, SinceStart(dateNow))
    /\ markedAt' = Append(markedAt, dateNow)
    /\ UNCHANGED <<dateNow, startTime, timings>>
    /\ UNCHANGED otherThanTimer

\* getTotalTime()
GetTotalTime == dateNow - startTime

\* getAllTimings(), called once for the response: after database_saved, or
\* from the catch of any step before it.
GetAllTimings ==
    /\ timings = NoTimings
    /\ timings' = [stages |-> stages, totalTime |-> GetTotalTime]
    /\ UNCHANGED <<dateNow, startTime, stages, markedAt>>
    /\ UNCHANGED otherThanTimer

\* new ProcessingTimer() of the next request.
NewProcessingTimer ==
    /\ timings # NoTimings
    /\ startTime' = dateNow
    /\ stages' = <<>>
    /\ markedAt' = <<>>
    /\ timings' = NoTimings
    /\ UNCHANGED dateNow
    /\ UNCHANGED otherThanTimer

TimerNext ==
    \/ ClockAdvances
    \/ MarkStage
    \/ GetAllTimings
    \/ NewProcessingTimer

(***************************************************************************)
(* Part 10: processBase64Chunks(base64String, chunkSize = 32768).  A base64 *)
(* character is its six-bit value, 0..63, and `=` is 64; a byte is 0..255. *)
(* The default chunkSize is 8192 groups of four characters; the model keeps *)
(* it a whole number of groups, ChunkGroups of them.                       *)
(***************************************************************************)
ChunkGroups == 2
MaxGroups == 4
Pad == 64

\* A chunkSize that is not a whole number of groups.
chunkSizeAcrossGroups == 4 * ChunkGroups + 2

\* chunkSize = 32768
chunkSize == 4 * ChunkGroups

\* atob's failure, InvalidCharacterError: a value no byte array equals.
InvalidCharacterError == <<0 - 1>>

\* The bytes of the whole groups of four characters of `data`, then those of
\* what is left over: one byte of two characters, two bytes of three.
RECURSIVE DecodeData(_)
DecodeData(data) ==
    IF Len(data) >= 4
    THEN <<data[1] * 4 + data[2] \div 16,
           (data[2] % 16) * 16 + data[3] \div 4,
           (data[3] % 4) * 64 + data[4]>> \o DecodeData(SubSeq(data, 5, Len(data)))
    ELSE IF Len(data) = 2 THEN <<data[1] * 4 + data[2] \div 16>>
    ELSE IF Len(data) = 3 THEN <<data[1] * 4 + data[2] \div 16,
                                 (data[2] % 16) * 16 + data[3] \div 4>>
    ELSE <<>>

\* atob(chunk): one or two `=` are dropped from the end of a string whose
\* length is a multiple of four; what is left must hold no `=` and its
\* length must not be one more than a multiple of four.
Atob(chunk) ==
    LET n == Len(chunk)
        drop == IF n > 0 /\ n % 4 = 0 /\ chunk[n] = Pad
                THEN (IF chunk[n - 1] = Pad THEN 2 ELSE 1)
                ELSE 0
        data == SubSeq(chunk, 1, n - drop)
    IN IF Len(data) % 4 = 1 \/ \E i \in 1..Len(data) : data[i] = Pad
       THEN InvalidCharacterError
       ELSE DecodeData(data)

\* The groups of four characters without padding the payloads are made of:
\* "AAAA", "TWFu" and "////".
FullGroups == {<<0, 0, 0, 0>>, <<19, 22, 5, 46>>, <<63, 63, 63, 63>>}
\* How a payload ends: with nothing more, with "TQ==" or with "TWE=".
LastGroups == {<<>>, <<19, 16, Pad, Pad>>, <<19, 22, 4, Pad>>}

RECURSIVE Flatten(_)
Flatten(seqs) == IF seqs = <<>> THEN <<>> ELSE Head(seqs) \o Flatten(Tail(seqs))

\* The valid base64 payloads of up to MaxGroups full groups and an end.
Payloads ==
    {Flatten(groups) \o last :
        groups \in UNION {[1..n -> FullGroups] : n \in 0..MaxGroups},
        last \in LastGroups}

Base64Init ==
    /\ b64Pc = "idle"
    /\ base64String = <<>>
    /\ position = 0
    /\ chunks = <<>>
    /\ result = <<>>

\* The call, up to its while loop.
ProcessBase64Chunks(payload) ==
    /\ b64Pc \in {"idle", "returned", "threw"}
    /\ b64Pc' = "loop"
    /\ base64String' = payload
    /\ position' = 0
    /\ chunks' = <<>>
    /\ result' = <<>>
    /\ UNCHANGED otherThanBase64

\* base64String.slice(position, position + size)
SliceOf(size) ==
    SubSeq(base64String, position + 1,
           IF position + size < Len(base64String) THEN position + size
           ELSE Len(base64String))

\* One turn of the while loop: a chunk is sliced, decoded and pushed, or
\* atob throws.
WhileChunk ==
    /\ b64Pc = "loop"
    /\ position < Len(base64String)
    /\ LET binaryChunk == Atob(SliceOf(chunkSize))
       IN IF binaryChunk = InvalidCharacterError
          THEN /\ b64Pc' = "threw"
               /\ UNCHANGED <<position, chunks>>
          ELSE /\ chunks' = Append(chunks, binaryChunk)
               /\ position' = position + chunkSize
               /\ UNCHANGED b64Pc
    /\ UNCHANGED <<base64String, result>>
    /\ UNCHANGED otherThanBase64

\* After the loop: the chunks are set into one array at their offsets.
Reassemble ==
    /\ b64Pc = "loop"
    /\ position >= Len(base64String)
    /\ result' = Flatten(chunks)
    /\ b64Pc' = "returned"
    /\ UNCHANGED <<base64String, position, chunks>>
    /\ UNCHANGED otherThanBase64

Base64Next ==
    \/ \E payload \in Payloads : ProcessBase64Chunks(payload)
    \/ WhileChunk
    \/ Reassemble

(***************************************************************************)
(* Part 11: DatabaseService.withRetry.  Every method of the exported       *)
(* instance goes through it, and retryCount is a field of that instance.   *)
(***************************************************************************)
MAX_RETRY_ATTEMPTS == 3
DbCallIds == {"c1", "c2"}

NoDbCall == [pc |-> "idle", attempts |-> 0]

RetryInit ==
    /\ retryCount = 0
    /\ dbCalls = [c \in DbCallIds |-> NoDbCall]

\* A method is called: withRetry invokes the operation.
WithRetry(c) ==
    /\ dbCalls[c].pc = "idle"
    /\ dbCalls' = [dbCalls EXCEPT ![c] = [pc |-> "operation", attempts |-> 1]]
    /\ UNCHANGED retryCount
    /\ UNCHANGED otherThanRetry

\* The operation resolves: the count is reset and the result returned.
OperationResolves(c) ==
    /\ dbCalls[c].pc = "operation"
    /\ retryCount' = 0
    /\ dbCalls' = [dbCalls EXCEPT ![c].pc = "returned"]
    /\ UNCHANGED otherThanRetry

\* Whether the catch of withRetry retries.
Retries == retryCount < MAX_RETRY_ATTEMPTS

\* The operation rejects: the catch counts and waits, or rethrows.
OperationRejects(c) ==
    /\ dbCalls[c].pc = "operation"
    /\ IF Retries
       THEN /\ retryCount' = retryCount + 1
            /\ dbCalls' = [dbCalls EXCEPT ![c].pc = "waiting"]
       ELSE /\ dbCalls' = [dbCalls EXCEPT ![c].pc = "threw"]
            /\ UNCHANGED retryCount
    /\ UNCHANGED otherThanRetry

\* The delay is over: withRetry calls itself, which invokes the operation.
RetryAfterDelay(c) ==
    /\ dbCalls[c].pc = "waiting"
    /\ dbCalls' = [dbCalls EXCEPT ![c] = [pc |-> "operation", attempts |-> @.attempts + 1]]
    /\ UNCHANGED retryCount
    /\ UNCHANGED otherThanRetry

RetryNext ==
    \E c \in DbCallIds :
        \/ WithRetry(c)
        \/ OperationResolves(c)
        \/ OperationRejects(c)
        \/ RetryAfterDelay(c)

(***************************************************************************)
(* Part 12: handleCompleteTask of TaskList: an insert into completed_tasks *)
(* and then a delete from tasks, as two separate requests.                 *)
(***************************************************************************)
CompletableIds == {"t1", "t2"}
CompleteCallIds == {"h1", "h2", "h3"}

NoCompleteCall == [pc |-> "idle", taskId |-> "none"]

CompleteInit ==
    /\ tasksRows = CompletableIds
    /\ completed_tasks = [t \in CompletableIds |-> 0]
    /\ allTasks = CompletableIds
    /\ completeCalls = [c \in CompleteCallIds |-> NoCompleteCall]

\* The list is loaded again from the tasks table.
TaskListRefreshed ==
    /\ allTasks # tasksRows
    /\ allTasks' = tasksRows
    /\ UNCHANGED <<tasksRows, completed_tasks, completeCalls>>
    /\ UNCHANGED otherThanComplete

\* handleCompleteTask(taskId) up to its insert: it returns when the list
\* does not hold the task.
HandleCompleteTask(c, taskId) ==
    /\ completeCalls[c].pc = "idle"
    /\ completeCalls' = [completeCalls EXCEPT ![c] =
            [pc |-> IF taskId \in allTasks THEN "insert" ELSE "returned",
             taskId |-> taskId]]
    /\ UNCHANGED <<tasksRows, completed_tasks, allTasks>>
    /\ UNCHANGED otherThanComplete

\* The insert into completed_tasks: the table has no unique constraint on
\* original_task_id; an error goes to the catch.
InsertCompletedTask(c, outcome) ==
    /\ completeCalls[c].pc = "insert"
    /\ IF outcome = "ok"
       THEN /\ completed_tasks' =
                  [completed_tasks EXCEPT ![completeCalls[c].taskId] = @ + 1]
            /\ completeCalls' = [completeCalls EXCEPT ![c].pc = "delete"]
       ELSE /\ completeCalls' = [completeCalls EXCEPT ![c].pc = "returned"]
            /\ UNCHANGED completed_tasks
    /\ UNCHANGED <<tasksRows, allTasks>>
    /\ UNCHANGED otherThanComplete

\* The delete from tasks, and the return: a delete of a row that is gone
\* is no error.
DeleteCompletedTask(c, outcome) ==
    /\ completeCalls[c].pc = "delete"
    /\ tasksRows' = IF outcome = "ok" THEN tasksRows \ {completeCalls[c].taskId}
                    ELSE tasksRows
    /\ completeCalls' = [completeCalls EXCEPT ![c].pc = "returned"]
    /\ UNCHANGED <<completed_tasks, allTasks>>
    /\ UNCHANGED otherThanComplete

CompleteNext ==
    \/ TaskListRefreshed
    \/ \E c \in CompleteCallIds, taskId \in CompletableIds : HandleCompleteTask(c, taskId)
    \/ \E c \in CompleteCallIds, outcome \in StoreOutcomes : InsertCompletedTask(c, outcome)
    \/ \E c \in CompleteCallIds, outcome \in StoreOutcomes : DeleteCompletedTask(c, outcome)

(***************************************************************************)
(* The specifications: each part runs from the common initial state.       *)
(***************************************************************************)
Start ==
    SweepInit /\ OptInit /\ FeedInit /\ CaptureInit /\ VoiceInit /\ RecordingInit
        /\ NotificationInit /\ TimerInit /\ Base64Init
        /\ RetryInit /\ CompleteInit

SweepSpec == Start /\ [][SweepNext]_vars
WritersSpec == Start /\ [][WritersNext]_vars
OptSpec == Start /\ [][OptNext]_vars
FeedSpec == Start /\ [][FeedNext]_vars
CaptureSpec == Start /\ [][CaptureNext]_vars
LinksSpec == Start /\ [][LinksNext]_vars
VoiceSpec == Start /\ [][VoiceNext]_vars
RecordingSpec == Start /\ [][RecordingNext]_vars
NotificationSpec == Start /\ [][NotificationNext]_vars
TimerSpec == Start /\ [][TimerNext]_vars
Base64Spec == Start /\ [][Base64Next]_vars
RetrySpec == Start /\ [][RetryNext]_vars
CompleteSpec == Start /\ [][CompleteNext]_vars

(***************************************************************************)
(* Properties of the task list.                                            *)
(***************************************************************************)
\* No event is undelivered and no fetch is outstanding.
Quiescent ==
    /\ subscribed
    /\ events = 0
    /\ \A f \in Fetches : fetches[f].phase \in {"none", "done", "failed"}

\* C10: once the events have stopped and every refetch has returned (none
\* failed, and no row changed before the channel was subscribed), the
\* displayed list is the durable tasks table ordered newest first, whatever
\* the order the responses arrived in.
C10_QuiescentListEqualsTable ==
    (Quiescent /\ ~missed /\ \A f \in Fetches : fetches[f].phase # "failed") =>
        dbTasks = FormattedTasks(OrderNewestFirst(tasksTable))

(***************************************************************************)
(* Properties of the capture screen.                                       *)
(***************************************************************************)
\* C11: while the work of a chosen Try Again, Force Fix or Save is in flight
\* (the pipeline request of the retry, or the inserts of the save),
\* isProcessing is true, which is what disables the four buttons.
C11_ControlsDisabledWhileInFlight ==
    (requests["retry"] > 0 \/ requests["force"] > 0 \/ savePc # "idle") => isProcessing

\* The policy of automatic acceptance: confidence high and a candidate with
\* a scheduledFor or an actionType of call, text, email or reminder.
AutoAccept(r) ==
    /\ r.confidence = "high"
    /\ \E i \in 1..Len(r.extractedTasks) :
          \/ r.extractedTasks[i].scheduledFor # NoTime
          \/ r.extractedTasks[i].actionType \in {"call", "text", "email", "reminder"}
\* The result waits for the user: the popup shows it and no save is running.
PendingReview ==
    /\ showTranscriptPopup
    /\ transcriptionResult # NoResult
    /\ savePc = "idle"

\* C12: a result is persisted without a user step exactly when the policy of
\* automatic acceptance holds for it: a result that waits for the user's
\* review is never one the policy accepts.
C12_AutoAcceptedResultNeverAwaitsReview ==
    PendingReview => ~AutoAccept(transcriptionResult)

TaskRow(id) == CHOOSE r \in tasksTable : r.id = id
ActionsOf(id) == {a \in ActionIds : RowExists(a) /\ task_id[a] = id}

\* C13: once the save has finished, every persisted candidate with an
\* actionType other than note and a scheduledFor in the future has its task
\* row and a scheduled action of that task, pending, with the same
\* scheduled_for.
C13_FutureCandidateGetsPendingAction ==
    savePc = "idle" =>
        \A p \in persisted :
            (p.candidate.actionType \notin {"note", "none"} /\ p.candidate.scheduledFor > p.at) =>
                /\ \E r \in tasksTable : r.id = p.id
                /\ \E a \in ActionsOf(p.id) :
                      /\ scheduled_actions[a].status = "pending"
                      /\ scheduled_actions[a].scheduled_for = p.candidate.scheduledFor

\* C14: a persisted candidate whose scheduledFor was in the past when it was
\* saved has its task row, with that scheduledFor stored on it, and no
\* scheduled action.
C14_PastCandidateKeepsTimeWithoutAction ==
    \A p \in persisted :
        (p.candidate.scheduledFor # NoTime /\ p.candidate.scheduledFor < p.at) =>
            /\ \E r \in tasksTable : r.id = p.id
            /\ TaskRow(p.id).scheduled_for = p.candidate.scheduledFor
            /\ ActionsOf(p.id) = {}

Answered == vtPc = "done" /\ supabaseConfigured

\* C16: when the chat completion call answers non-2xx and the transcript
\* contains the word "remind", the result holds exactly one candidate, of
\* actionType reminder and titled with the truncated transcript, and its
\* confidence is low.
C16_NonOkRemindGivesOneLowConfidenceReminder ==
    (/\ Answered
     /\ chatgpt.outcome = "non_ok"
     /\ Includes(ToLowerCase(rawTranscription), <<"r", "e", "m", "i", "n", "d">>)) =>
        /\ vtResponse.success
        /\ Len(vtResponse.analysis.extractedTasks) = 1
        /\ vtResponse.analysis.extractedTasks[1].actionType = "reminder"
        /\ vtResponse.analysis.extractedTasks[1].title = Slice(rawTranscription, TitleLength)
        /\ vtResponse.analysis.confidence = "low"

\* C17: when the chat completion call succeeds with content that is not the
\* expected JSON, the result is the keyword fallback's (at most one
\* candidate), its confidence is low and its potentialErrors is not empty.
C17_UnparsableContentGivesLowConfidenceAndError ==
    (Answered /\ chatgpt.outcome = "unparsable") =>
        /\ vtResponse.success
        /\ Len(vtResponse.analysis.extractedTasks) <= 1
        /\ vtResponse.analysis.confidence = "low"
        /\ vtResponse.analysis.potentialErrors # <<>>

\* C18: after a successful transcription, whether the chat completion call
\* throws, answers non-2xx, answers 2xx without choices or carries
\* unparsable content, the invocation answers with a success response and
\* never with the success:false / 500 response.
C18_EveryChatOutcomeEndsInSuccess ==
    (/\ Answered
     /\ chatgpt.outcome \in {"exception", "non_ok", "no_choices", "unparsable"}) =>
        vtResponse.success /\ vtResponse.status = 200

\* The scheduledFor of each candidate of an analysis.
ScheduledFors(analysis) ==
    [i \in 1..Len(analysis.extractedTasks) |-> analysis.extractedTasks[i].scheduledFor]

\* Two parsed results that differ at most in the scheduledFor they propose.
DifferOnlyInProposals(p, q) ==
    /\ Len(p.extractedTasks) = Len(q.extractedTasks)
    /\ \A i \in 1..Len(p.extractedTasks) :
          /\ p.extractedTasks[i].title = q.extractedTasks[i].title
          /\ p.extractedTasks[i].actionType = q.extractedTasks[i].actionType
    /\ p.confidence = q.confidence
    /\ p.potentialErrors = q.potentialErrors

\* C19: the scheduledFor of every returned candidate depends only on the
\* transcript and the reference time: a run that differs only in the
\* scheduledFor values the model proposed returns the same scheduledFor for
\* every candidate, and every scheduledFor is null when the transcript holds
\* no recognised time expression.
C19_ScheduledForIgnoresProposals ==
    (Answered /\ vtResponse.success) =>
        /\ \A q \in ParsedResults :
              (chatgpt.outcome = "parsed"
                  /\ DifferOnlyInProposals(q, chatgpt.parsedResult)) =>
                 ScheduledFors(Analysis(deployed, [chatgpt EXCEPT !.parsedResult = q],
                                        rawTranscription, vtNow))
                     = ScheduledFors(vtResponse.analysis)
        /\ Parse(deployed, rawTranscription, vtNow) = NoTime =>
              \A i \in 1..Len(vtResponse.analysis.extractedTasks) :
                  vtResponse.analysis.extractedTasks[i].scheduledFor = NoTime

\* The same for the copy of the function that is deployed.
CurrentCopyIgnoresProposals == deployed = "current" => C19_ScheduledForIgnoresProposals

\* The length of a minute, an hour and a day in ms.
UnitMs(noun) ==
    IF noun = <<"m", "i", "n", "u", "t", "e">> THEN 60 * 1000
    ELSE IF noun = <<"h", "o", "u", "r">> THEN 60 * 60 * 1000
    ELSE 24 * 60 * 60 * 1000

\* C20: for every N from 1 to 20 and every reference time t, "in N minutes"
\* resolves to t + N minutes, "in N hours" to t + N hours and "in N days" to
\* t + N days, with N in digits and with N spelled out alike: every candidate
\* the deployed function returns for such a transcript is scheduled for that
\* instant, and its fallback for a failed chat completion returns one.
C20_RelativeDurationsResolve ==
    \A n \in Numbers, noun \in UnitNouns :
        (/\ Answered
         /\ vtResponse.success
         /\ deployed = "current"
         /\ rawTranscription \in {InDigits(n, noun), InWords(n, noun)}) =>
            /\ \A i \in 1..Len(vtResponse.analysis.extractedTasks) :
                  vtResponse.analysis.extractedTasks[i].scheduledFor
                      = vtNow + n * UnitMs(noun)
            /\ chatgpt.outcome = "non_ok" => Len(vtResponse.analysis.extractedTasks) = 1

\* The same for N in digits alone.
DigitDurationsResolve ==
    \A n \in Numbers, noun \in UnitNouns :
        (/\ Answered
         /\ vtResponse.success
         /\ deployed = "current"
         /\ rawTranscription = InDigits(n, noun)) =>
            /\ \A i \in 1..Len(vtResponse.analysis.extractedTasks) :
                  vtResponse.analysis.extractedTasks[i].scheduledFor
                      = vtNow + n * UnitMs(noun)
            /\ chatgpt.outcome = "non_ok" => Len(vtResponse.analysis.extractedTasks) = 1

\* The day after the day of t, at h24:mm:00.000.
NextDayAt(t, h24, mm) ==
    ((t \div (24 * 60 * 60 * 1000)) + 1) * 24 * 60 * 60 * 1000
        + h24 * 60 * 60 * 1000 + mm * 60 * 1000

\* The hour of the 24-hour clock: pm adds 12 except at 12, 12am is 0.
Hour24(h, period) ==
    IF period = <<"p", "m">> THEN (IF h = 12 THEN 12 ELSE h + 12)
    ELSE IF h = 12 THEN 0 ELSE h

\* Every candidate of a success response is scheduled for the instant, and
\* the fallback for a failed chat completion returns one.
AllScheduledFor(instant) ==
    /\ \A i \in 1..Len(vtResponse.analysis.extractedTasks) :
          vtResponse.analysis.extractedTasks[i].scheduledFor = instant
    /\ chatgpt.outcome = "non_ok" => Len(vtResponse.analysis.extractedTasks) = 1

\* C21: for every reference time t, "tomorrow at H[:MM] am|pm" resolves to
\* the calendar day after t's date at the normalised 24-hour time with
\* seconds zero, and "tomorrow" alone to 09:00:00 on that day, so the time
\* of day of the result never depends on the time of day of t.
C21_TomorrowResolvesToNextDayAtGivenTime ==
    (Answered /\ vtResponse.success) =>
        /\ \A h \in 1..12, mm \in MinuteTexts, period \in Periods :
              rawTranscription = TomorrowAt(h, mm, period) =>
                  AllScheduledFor(NextDayAt(vtNow, Hour24(h, period),
                                            IF mm = <<>> THEN 0 ELSE 30))
        /\ rawTranscription = Tomorrow => AllScheduledFor(NextDayAt(vtNow, 9, 0))

\* A failed chat completion fell back on "tomorrow at 12:30am", heard when
\* the reference time was not a midnight.
C21_Witness ==
    /\ Answered
    /\ chatgpt.outcome = "non_ok"
    /\ rawTranscription = TomorrowAt(12, <<":", "3", "0">>, <<"a", "m">>)
    /\ vtNow % (24 * 60 * 60 * 1000) # 0
    /\ Len(vtResponse.analysis.extractedTasks) = 1

(***************************************************************************)
(* Properties of the useAudioRecording hook.                               *)
(***************************************************************************)
\* C22: when a recording has started and the user has not stopped it, once
\* the maximum-duration timer has fired the capture is stopped: the
\* MediaRecorder no longer records, the microphone stream is released or
\* its release is queued, and isRecording is false.
C22_AutoStopStopsTheCapture ==
    autoStopFired =>
        /\ mediaRecorderRef # "recording"
        /\ streamRef = "null" \/ stopEvent
        /\ ~isRecording

(***************************************************************************)
(* Properties of the local notification ids.                               *)
(***************************************************************************)
\* C23: every id the on-device dispatcher gives to a local notification is
\* strictly greater than every id it gave before, so no two notifications
\* share an id, across repeated scheduleActionsFromDatabase calls and after
\* the service is created again while earlier notifications are scheduled.
C23_NotificationIdsStrictlyIncrease ==
    \A i \in 1..Len(assignedIds), j \in 1..Len(assignedIds) :
        i < j => assignedIds[i] < assignedIds[j]

(***************************************************************************)
(* More properties of the sweep.                                           *)
(***************************************************************************)
\* C24: a failure while one selected row is handled does not abort the
\* sweep: a run that selected rows never ends in the error response, and
\* when it returns its success response it has gone through every row it
\* selected.
C24_RowFailureDoesNotAbortSweep ==
    \A r \in Runs :
        /\ dueActions[r] # {} => sweepPc[r] # "aborted"
        /\ sweepPc[r] = "done" => todo[r] = {}

\* The same when the status write of the catch block does not throw.
RowFailureIsolatedUnlessCatchThrows ==
    [][\A r \in Runs :
          (sweepPc[r] \notin {"catch", "aborted"} /\ dueActions[r] # {})
              => sweepPc'[r] # "aborted"]_vars

\* The row qualifies for the sweep: pending, due, web delivery enabled.
Qualifies(a) ==
    /\ scheduled_actions[a].status = "pending"
    /\ scheduled_actions[a].scheduled_for <= now
    /\ scheduled_actions[a].web_push

\* C25: a sweep run changes only rows that were pending, due and enabled for
\* web delivery when it selected: every row a run selects qualifies at that
\* moment, an existing row changes only while a run that selected it is
\* handling it, and a fallback task is created only for such a row, so a run
\* that selected no row creates no task and changes no row.
C25_SweepChangesOnlySelectedRows ==
    [][/\ \A r \in Runs :
             dueActions'[r] # dueActions[r] =>
                 \A a \in Ids(dueActions'[r]) : Qualifies(a)
       /\ \A a \in ActionIds :
             (\/ (RowExists(a) /\ scheduled_actions'[a] # scheduled_actions[a])
              \/ reminderTasks'[a] # reminderTasks[a]) =>
                 \E r \in Runs : cur[r] = a /\ a \in Ids(dueActions[r])]_vars

\* A run has returned after completing a row it selected, next to a pending
\* row that is due but not enabled for web delivery, and a run that selected
\* nothing has returned as well.
C25_Witness ==
    /\ \E r \in Runs, a \in ActionIds, b \in ActionIds :
          /\ sweepPc[r] = "done"
          /\ a \in Ids(dueActions[r])
          /\ scheduled_actions[a].status = "completed"
          /\ scheduled_actions[b].status = "pending"
          /\ scheduled_actions[b].scheduled_for <= now
          /\ ~scheduled_actions[b].web_push
    /\ \E r \in Runs : sweepPc[r] = "done" /\ dueActions[r] = {}

\* The row a run is handling is a reminder.
IsReminder(a) == scheduled_actions[a].action_type = "reminder"

\* C26: for each row it handles, the sweep attempts the fallback task insert
\* if and only if the row is a reminder, once, and before it writes the
\* row's status: a run comes to the insert only from the loop, with a row
\* it takes off its list, and only for a reminder; it comes to the status
\* write of a reminder only from the insert; a task is created only by the
\* insert of a reminder, and a status is written only after it.
C26_FallbackInsertOnlyForRemindersOnceBeforeStatus ==
    [][\A r \in Runs :
          /\ (sweepPc[r] = "loop" /\ sweepPc'[r] \in {"insert", "update"}) =>
                /\ sweepPc'[r] = "insert" <=> IsReminder(cur'[r])
                /\ cur'[r] \in Ids(todo[r]) \ Ids(todo'[r])
          /\ (sweepPc'[r] = "insert" /\ sweepPc[r] # "insert") => sweepPc[r] = "loop"
          /\ (sweepPc'[r] = "update" /\ sweepPc[r] # "update") =>
                sweepPc[r] = (IF IsReminder(cur'[r]) THEN "insert" ELSE "loop")
          /\ (sweepPc'[r] = "catch" /\ sweepPc[r] # "catch") =>
                sweepPc[r] \in {"insert", "update"}
          /\ \A a \in ActionIds :
                /\ reminderTasks'[a] # reminderTasks[a] =>
                      \E q \in Runs : sweepPc[q] = "insert" /\ cur[q] = a /\ IsReminder(a)
                /\ (RowExists(a) /\ scheduled_actions'[a] # scheduled_actions[a]) =>
                      \E q \in Runs : sweepPc[q] \in {"update", "catch"} /\ cur[q] = a]_vars

\* A run has returned after handling a reminder, for which it created the
\* fallback task, and a call, for which it created none.
C26_Witness ==
    \E r \in Runs, a \in ActionIds, b \in ActionIds :
        /\ sweepPc[r] = "done"
        /\ {a, b} \subseteq Ids(dueActions[r])
        /\ IsReminder(a) /\ ~IsReminder(b)
        /\ reminderTasks[a] = 1 /\ reminderTasks[b] = 0
        /\ scheduled_actions[a].status = "completed"
        /\ scheduled_actions[b].status = "completed"

(***************************************************************************)
(* More properties of the optimistic task list.                            *)
(***************************************************************************)
\* C27: for every optimistic mutation whose durable write fails, a rollback
\* closure is found and run when the failure is settled and the error is
\* raised to the caller, also when another mutation of the same kind on the
\* same task is in flight or has completed first.
C27_FailedWriteRunsRollbackAndRaises ==
    lastFail.call # 0 =>
        /\ lastFail.ran
        /\ ops[lastFail.call].phase = "settled_err"

(***************************************************************************)
(* More properties of the voice-to-text edge function.                     *)
(***************************************************************************)
\* C28: within one invocation the chat completion request is sent only
\* after the transcription request has returned successfully; when the
\* transcription fails, no chat completion request is sent, nothing is
\* written to transcriptions, and the response is success:false with a
\* status that is not 2xx.
C28_ExtractionOnlyAfterTranscription ==
    /\ chatgpt.outcome # "none" => whisper = "ok"
    /\ whisper = "failed" =>
          /\ chatgpt.outcome = "none"
          /\ inserted = 0
          /\ vtPc = "done"
          /\ ~vtResponse.success
          /\ vtResponse.status \notin 200..299

\* An invocation whose transcription failed has answered.
C28_Witness == vtPc = "done" /\ whisper = "failed" /\ vtResponse.status = 500

(***************************************************************************)
(* More properties of the capture screen.                                  *)
(***************************************************************************)
\* C29: Try Again or Force Fix on a review result re-runs the extraction
\* alone, on the transcript that is cached: no new transcription request is
\* sent, and the aggressive-correction flag the user chose reaches the
\* extraction.
C29_RetryRunsExtractionAloneWithTheFlag ==
    served.origin \in {"retry", "force"} =>
        /\ ~served.transcribed
        /\ served.aggressive = (served.origin = "force")

(***************************************************************************)
(* Properties of the ProcessingTimer.                                      *)
(***************************************************************************)
RECURSIVE SumOf(_)
SumOf(seq) == IF seq = <<>> THEN 0 ELSE Head(seq) + SumOf(Tail(seq))

\* The time spent in stage i alone: from the end of the stage before it (or
\* from the start of the timer) to its own end.
StageAlone(i) == markedAt[i] - (IF i = 1 THEN startTime ELSE markedAt[i - 1])

\* C30: the timing reported for each stage is the time spent in that stage
\* alone, from the end of the previous stage to the end of this one, so the
\* reported stage timings add up to at most the reported totalTime.
C30_StageTimingsAreOfTheStageAlone ==
    timings # NoTimings =>
        /\ \A i \in 1..Len(timings.stages) : timings.stages[i] = StageAlone(i)
        /\ SumOf(timings.stages) <= timings.totalTime

(***************************************************************************)
(* Properties of processBase64Chunks.                                      *)
(***************************************************************************)
\* C31: for every valid base64 payload, processBase64Chunks returns exactly
\* the bytes that decoding the whole payload at once returns: the chunks are
\* decoded in input order and joined with no gap, overlap, loss or extra
\* byte at the chunk boundaries; it never throws on such a payload.
C31_ChunkedDecodeEqualsWholeDecode ==
    /\ b64Pc = "returned" => result = Atob(base64String)
    /\ b64Pc # "threw"

\* A padded payload of more than one chunk has been decoded.
C31_Witness ==
    /\ b64Pc = "returned"
    /\ Len(chunks) >= 2
    /\ base64String[Len(base64String)] = Pad
    /\ Len(result) > 3 * ChunkGroups

(***************************************************************************)
(* Properties of DatabaseService.withRetry.                                *)
(***************************************************************************)
\* C32: a call whose operation fails on every attempt invokes the operation
\* exactly MAX_RETRY_ATTEMPTS + 1 times and then rethrows, whatever other
\* calls ran before it or overlap with it.
C32_FailingCallMakesAllAttemptsThenRethrows ==
    \A c \in DbCallIds :
        dbCalls[c].pc = "threw" => dbCalls[c].attempts = MAX_RETRY_ATTEMPTS + 1

(***************************************************************************)
(* More properties of the status of a scheduled action.                    *)
(***************************************************************************)
Terminal == {"completed", "failed"}

\* C33: once the status of a scheduled action is completed or failed it
\* never changes again: a notification tap, a sweep run that selected the
\* row earlier and the process_due_actions job all leave a row in a terminal
\* status as it is (a delete removes the row).
C33_TerminalStatusNeverChanges ==
    [][\A a \in ActionIds :
          scheduled_actions[a].status \in Terminal =>
              scheduled_actions'[a].status \in {scheduled_actions[a].status, "deleted"}]_vars

\* C34: with the process_due_actions job and the sweep both running, every
\* web-enabled reminder action that ends up completed on the server side
\* (no notification of it was ever on the device to be tapped) has had its
\* fallback task created.
C34_CompletedReminderHasItsFallbackTask ==
    \A a \in ActionIds :
        (/\ scheduled_actions[a].status = "completed"
         /\ scheduled_actions[a].action_type = "reminder"
         /\ scheduled_actions[a].web_push
         /\ a \notin onDevice)
        => reminderTasks[a] >= 1

(***************************************************************************)
(* More properties of useAudioRecording.                                   *)
(***************************************************************************)
\* C35: at most one microphone stream and one MediaRecorder are active at
\* any time: a startRecording call made while an earlier start is waiting
\* for the microphone, or while a recording is active, acquires no second
\* stream and leaves no stream unreleased (a stream that is live is the one
\* streamRef holds).
C35_AtMostOneStreamAndRecorder ==
    /\ liveStreams <= 1
    /\ activeRecorders <= 1
    /\ streamRef = "null" => liveStreams = 0

\* C40: isRecording is true only while a MediaRecorder is held: after a
\* recorder error, a failed start or a cleanup() call isRecording is false,
\* so that a later startRecording call is accepted.
C40_IsRecordingOnlyWhileRecorderHeld ==
    isRecording => mediaRecorderRef # "null"

(***************************************************************************)
(* Properties of the local notifications on the device.                    *)
(***************************************************************************)
\* C36: each pending scheduled action has at most one local notification
\* scheduled on the device at any time: running scheduleActionsFromDatabase
\* again does not schedule a second notification for an action that already
\* has one.
C36_AtMostOneNotificationPerAction ==
    \A a \in ActionIds :
        Cardinality({n \in localNotifications : n.actionId = a}) <= 1

\* C37: after a scheduled action has been deleted, through its Delete
\* control or by the cascade from its task, no local notification for it
\* remains scheduled on the device (one that was scheduled, was not
\* cancelled, and whose time, a member of ScheduleTimes, has not passed).
C37_DeletedActionHasNoNotification ==
    \A a \in ActionIds :
        scheduled_actions[a].status = "deleted" =>
            ~(a \in onDevice /\ \A sf \in ScheduleTimes : now <= sf)

(***************************************************************************)
(* Properties of completing a task.                                        *)
(***************************************************************************)
\* The calls of handleCompleteTask for a task that have not returned.
Completing(t) ==
    {c \in CompleteCallIds :
        completeCalls[c].taskId = t /\ completeCalls[c].pc \in {"insert", "delete"}}

\* C38: after handleCompleteTask has returned, whether both writes
\* succeeded, either write failed, or it was invoked twice for the same
\* task, the task is in exactly one of tasks and completed_tasks, and
\* completed_tasks holds at most one row per original_task_id.
C38_TaskInExactlyOneTable ==
    \A t \in CompletableIds :
        Completing(t) = {} =>
            /\ (t \in tasksRows) # (completed_tasks[t] > 0)
            /\ completed_tasks[t] <= 1

(***************************************************************************)
(* More properties of saving a reviewed result.                            *)
(***************************************************************************)
\* C39: across all Save attempts on one review result, each candidate is
\* persisted as a task at most once: when the insert of a later candidate
\* fails and the user presses Save again, the candidates that were already
\* inserted are not inserted a second time.
C39_EachCandidatePersistedAtMostOnce ==
    \A i, j \in 1..Len(savedOfResult) :
        savedOfResult[i] = savedOfResult[j] => i = j

====
